---- MODULE Spec2Model ----
(***************************************************************************)
(* Forest agreement layer (GEODATA and ROI scripts, v1.0).                 *)
(*                                                                         *)
(* The scripts are straight-line Earth Engine programs.  Each part of a    *)
(* script is modelled as the steps it executes, on rasters that are        *)
(* functions from a finite pixel set to pixels (a value and a mask bit),   *)
(* all on the common EPSG:4326 grid at TARGET_RESOLUTION that              *)
(* reprojectAndResample forces.  One specification per part draws that     *)
(* part's inputs in its initial states and runs the part's statements.     *)
(***************************************************************************)
EXTENDS Integers, Sequences, FiniteSets, TLC

VARIABLES
  pc,                       \* position in the part of the script being run
  image,                    \* Part 5: the dataset raster last passed to reclassifyImage
  reclassifiedList,         \* Part 5: the masks built so far, in list order
  projection,               \* Part 5: the grid of the dataset raster last loaded
  projections,              \* Part 5: the grid of each mask of reclassifiedList
  roi,                      \* Part 1: the pixels of the region of interest
  forestAgreement,          \* Part 6: the raw agreement raster
  sieveThresholdPixels,     \* Part 0: the value the user left in SIEVE_THRESHOLD_PIXELS
  smallPatches,             \* Part 6: connectedPixelCount(8).lt(threshold)
  majorityClass,            \* Part 6: focalMode of the raw agreement raster
  forestAgreementFiltered,  \* Part 6: the MMU-filtered agreement raster
  fc,                       \* Part 9: the table of per-dataset statistics
  ranked,                   \* Part 9: the extent-ranking table
  centroid,                 \* Parts 8 and 10: the centroid a UTM zone is computed for
  epsg,                     \* Part 8: the string getUTMEPSG returned
  epsgCode,                 \* Part 10: the string of the inline computation
  targetResolution,         \* Part 0: the value the user left in TARGET_RESOLUTION
  shp_data,                 \* Part 1: the analysis polygons
  shp_with_area,            \* Part 10: the polygons with area and area_check
  passed,                   \* Part 10: the polygons handed to reduceRegions
  stats,                    \* Part 10: the result of reduceRegions
  withPercent,              \* Part 10: stats with forestagree
  below,                    \* Part 10: the flagged polygons, forestagree null
  final,                    \* Part 10: the per-polygon output table
  script,                   \* which of the two scripts is running
  shapefilePath,            \* Part 0A: the value the user left in SHAPEFILE_PATH
  geodataType,              \* Part 0A: the value the user left in GEODATA_TYPE
  asset,                    \* the feature collection stored at SHAPEFILE_PATH
  inputForClustering,       \* Part 1: the features handed to clusterBoundingBoxes
  clusterBoundsFC,          \* Part 1: the cluster bounding boxes
  error,                    \* the message of the exception that ended the run
  fetched,                  \* Part 4: the datasets requested from the catalog
  exportTarget,             \* Part 0B: the value the user left in EXPORT_TARGET
  mapLayers,                \* Part 7: the layers added to the map
  forestAgreementExport,    \* ROI script, Part 8: the raster handed to the tiles
  tileFC,                   \* ROI script, Part 8: the tiles that meet roi
  clipped,                  \* Part 8: the raster clipped for each cluster
  counts,                   \* Part 8: the pixel count evaluated for each cluster
  pending,                  \* the callbacks of evaluate() that have not yet run
  tasks,                    \* the export tasks submitted, in order
  log,                      \* the messages printed by the export callbacks
  mask6to9,                 \* Part 10: the mask of agreement 6..9
  tiling,                   \* ROI script, Part 0C: the values left in numRows and numCols
  tileFeatures              \* ROI script, Part 8: the tiles before filterBounds

varsReclass == <<image, reclassifiedList, projection, projections>>
varsSieve == <<roi, sieveThresholdPixels, smallPatches, majorityClass, forestAgreementFiltered>>
varsRank == <<fc, ranked>>
varsUtm == <<centroid, epsg, epsgCode>>
varsPolygons == <<targetResolution, shp_data, shp_with_area, passed, stats,
                  withPercent, below, final>>
varsRegion == <<script, shapefilePath, geodataType, asset, inputForClustering,
                clusterBoundsFC, error, fetched>>
varsExport ==
  <<exportTarget, mapLayers, forestAgreementExport, tileFC, clipped, counts, pending,
    tasks, log, mask6to9, tiling, tileFeatures>>

vars ==
  <<pc, varsReclass, forestAgreement, varsSieve, varsRank, varsUtm, varsPolygons,
    varsRegion, varsExport>>

NotComputed == <<>>

----------------------------------------------------------------------------
(* PART 0: user-defined constants                                          *)

TARGET_RESOLUTION == 30
SIEVE_THRESHOLD_PIXELS == 6
FOREST_HEIGHT_MIN == 5
AGREEMENT_RADIUS == 1

----------------------------------------------------------------------------
(* Pixels and rasters                                                      *)

\* An Earth Engine pixel: a value and a mask bit (0 = masked, nodata).
Pixel(v, m) == [value |-> v, mask |-> m]

Masked == Pixel(0, 0)

\* Raw class codes drawn for a dataset pixel: every discrete class code of the
\* catalog with its neighbours, the ends of the canopy-height range, a negative
\* value and a value beyond one byte.
RawValues ==
  {0 - 1, 0, 1, 2, 3, 4, 5, 6, 9, 10, 11, 19, 20, 21, 50, 51, 52, 53, 60, 61, 62,
   63, 70, 71, 72, 73, 80, 81, 82, 83, 90, 91, 92, 93, 254, 255, 256}

RawPixels == {Masked} \cup {Pixel(v, 1) : v \in RawValues}

\* Parts 5 and 6 are pixel-wise: they are run on a raster of one pixel.
SamplePixels == {<<1, 1>>}

----------------------------------------------------------------------------
(* PART 2: forest class definitions                                        *)

\* ee.List.sequence(first, last)
ListSequence(first, last) == [i \in 1..(last - first + 1) |-> first + i - 1]

\* ee.List.repeat(v, n)
ListRepeat(v, n) == [i \in 1..n |-> v]

DatasetOrder ==
  <<"JRC", "ESRI_LULC", "DynamicWorld", "GLCFCS30D", "GLC10", "GLCLU",
    "PALSAR", "ETH", "GFT">>

forestClasses(name) ==
  CASE name = "JRC"          -> <<1>>
    [] name = "ESRI_LULC"    -> <<2>>
    [] name = "DynamicWorld" -> <<1>>
    [] name = "GLCFCS30D"    -> <<51, 52, 61, 62, 71, 72, 81, 82, 91, 92>>
    [] name = "GLC10"        -> <<20>>
    [] name = "GLCLU"        -> <<1, 3, 4>>
    [] name = "PALSAR"       -> <<1, 2>>
    [] name = "GFT"          -> <<1, 10>>
    [] name = "ETH"          -> ListSequence(FOREST_HEIGHT_MIN, 255)

\* Number of datasets combined (length of reclassifiedList).
D == Len(DatasetOrder)

----------------------------------------------------------------------------
(* PART 1: defined region of interest; PART 4: load datasets               *)

\* Lengths are counted in units of UnitM metres.
UnitM == 10

\* The buffer clusterBoundingBoxes joins nearby features with, in metres.
JoinBufferM == 10000

\* BUFFER_HA, in tenths of a hectare (0.6 ha).
BUFFER_HA == 6

\* SHAPEFILE_PATH is kept as the sequence of its path segments.
DefaultShapefilePath == <<"projects", "ee-yourusername", "assets", "your_geodata_here">>

ShapefilePaths ==
  {DefaultShapefilePath,
   <<"projects", "ee-user", "assets", "your_geodata_here">>,
   <<"projects", "ee-user", "assets", "plots">>}

GeodataTypes == {"Point", "Polygon", "LineString"}

\* Largest number of features in the asset.
MaxFeatures == 3

\* Where a feature of the asset may lie, in kilometres east and north.
PositionsKm == {<<0, 0>>, <<5, 0>>, <<15, 0>>, <<29, 0>>, <<50, 0>>, <<15, 15>>}

\* Half the extent of a plot polygon or of a line, in metres.
PlotRadiusM == 50

\* A geometry is kept as its type, its centre and the radius it reaches.
Geometry(type, pos) ==
  [type |-> type,
   x |-> pos[1] * (1000 \div UnitM),
   y |-> pos[2] * (1000 \div UnitM),
   r |-> IF type = "Point" THEN 0 ELSE PlotRadiusM \div UnitM]

\* A point at any of the positions, a plot at three of them, a line at the
\* first one.
AssetGeometries ==
  {Geometry("Point", pos) : pos \in PositionsKm}
    \cup {Geometry("Polygon", pos) : pos \in {<<0, 0>>, <<15, 0>>, <<15, 15>>}}
    \cup {Geometry("LineString", <<0, 0>>)}

\* The feature collection that holds the geometries of a list, in its order.
AssetOf(geoms) == [i \in 1..Len(geoms) |-> [id |-> i, geometry |-> geoms[i]]]

\* Math.sqrt on a whole number, rounded down.
ISqrt(n) == CHOOSE k \in 0..n : k * k <= n /\ n < (k + 1) * (k + 1)

\* Mutant of IndexOfSegment: the path is compared with the default path as a whole.
IndexOfWholePath(path, name) == IF path = DefaultShapefilePath THEN 0 ELSE 0 - 1

\* SHAPEFILE_PATH.indexOf(name): the first segment holding name, -1 when none does.
IndexOfSegment(path, name) ==
  LET hits == {i \in 1..Len(path) : path[i] = name}
  IN  IF hits = {} THEN 0 - 1
      ELSE (CHOOSE i \in hits : \A j \in hits : i <= j) - 1

\* Mutant of Buffer: the distance is taken as the width across, not the radius.
BufferAcross(g, distanceM) ==
  [type |-> "Polygon", x |-> g.x, y |-> g.y, r |-> g.r + (distanceM \div UnitM) \div 2]

\* f.buffer(distance), distance in metres.
Buffer(g, distanceM) ==
  [type |-> "Polygon", x |-> g.x, y |-> g.y, r |-> g.r + (distanceM \div UnitM)]

\* var bufferPoints = function(fc) {...}
bufferPoints(coll) ==
  LET buffer_m2 == BUFFER_HA * 1000
      buffer_radius_m == ISqrt((buffer_m2 * 1000) \div 3142)
  IN  [i \in 1..Len(coll) |->
         [id |-> coll[i].id, geometry |-> Buffer(coll[i].geometry, buffer_radius_m)]]

\* Two geometries share more than a boundary point.
Overlap(a, b) ==
  (a.x - b.x) * (a.x - b.x) + (a.y - b.y) * (a.y - b.y) < (a.r + b.r) * (a.r + b.r)

\* .union().geometry(): overlapping parts are merged until none overlap; the
\* result is the set of the polygons left, each the set of the shapes it covers.
RECURSIVE UnionOf(_)
UnionOf(parts) ==
  LET pairs == {pq \in parts \X parts :
                  /\ pq[1] # pq[2]
                  /\ \E a \in pq[1], b \in pq[2] : Overlap(a, b)}
  IN  IF pairs = {} THEN parts
      ELSE LET pq == CHOOSE x \in pairs : TRUE
           IN  UnionOf((parts \ {pq[1], pq[2]}) \cup {pq[1] \cup pq[2]})

MinOf(S) == CHOOSE m \in S : \A n \in S : m <= n

MaxOf(S) == CHOOSE m \in S : \A n \in S : n <= m

\* ee.Geometry(g).bounds()
Bounds(part) ==
  [xmin |-> MinOf({g.x - g.r : g \in part}), xmax |-> MaxOf({g.x + g.r : g \in part}),
   ymin |-> MinOf({g.y - g.r : g \in part}), ymax |-> MaxOf({g.y + g.r : g \in part})]

\* The lists that hold every element of S once.
Orderings(S) ==
  {seq \in [1..Cardinality(S) -> S] : \A e \in S : \E i \in 1..Cardinality(S) : seq[i] = e}

\* Mutant of clusterBoundingBoxes: one bounding box around the whole union.
clusterBoundingBoxesOfUnion(coll) ==
  LET unioned == UnionOf({{Buffer(coll[i].geometry, JoinBufferM)} : i \in 1..Len(coll)})
  IN  {<<[geometry |-> Bounds(UNION unioned)]>>}

\* var clusterBoundingBoxes = function(fc) {...}: every list unioned.geometries()
\* may return, each polygon replaced by the feature of its bounds.
clusterBoundingBoxes(coll) ==
  LET unioned == UnionOf({{Buffer(coll[i].geometry, JoinBufferM)} : i \in 1..Len(coll)})
  IN  {[k \in 1..Len(clusterGeoms) |-> [geometry |-> Bounds(clusterGeoms[k])]] :
         clusterGeoms \in Orderings(unioned)}

\* Lines 89-94: the placeholder check.
CheckPlaceholder ==
  /\ pc = "part1"
  /\ script = "GEODATA"
  /\ IF IndexOfSegment(shapefilePath, "your_geodata_here") # 0 - 1
     THEN /\ error' = "ERROR: Please specify your shapefile"
          /\ pc' = "failed"
     ELSE /\ error' = error
          /\ pc' = "shp_data"
  /\ UNCHANGED <<varsReclass, forestAgreement, varsSieve, varsRank, varsUtm, varsPolygons,
                 script, shapefilePath, geodataType, asset, inputForClustering,
                 clusterBoundsFC, fetched,
                 varsExport>>

\* Lines 96-106: load the asset and compare the type of its first feature.
LoadShapefile ==
  /\ pc = "shp_data"
  /\ shp_data' = asset
  /\ LET firstFeature == asset[1]
         actualType == firstFeature.geometry.type
     IN  IF actualType # geodataType
         THEN /\ error' = "ERROR: GEODATA_TYPE does not match the shapefile geometry."
              /\ pc' = "failed"
         ELSE /\ error' = error
              /\ pc' = "inputForClustering"
  /\ UNCHANGED <<varsReclass, forestAgreement, varsSieve, varsRank, varsUtm,
                 targetResolution, shp_with_area, passed, stats, withPercent, below,
                 final, script, shapefilePath, geodataType, asset, inputForClustering,
                 clusterBoundsFC, fetched,
                 varsExport>>

\* Lines 137-146: the features to cluster, by GEODATA_TYPE.
InputForClustering ==
  /\ pc = "inputForClustering"
  /\ IF geodataType = "Point"
     THEN /\ inputForClustering' = bufferPoints(shp_data)
          /\ error' = error
          /\ pc' = "clusterBoundsFC"
     ELSE IF geodataType = "Polygon"
     THEN /\ inputForClustering' = shp_data
          /\ error' = error
          /\ pc' = "clusterBoundsFC"
     ELSE /\ inputForClustering' = inputForClustering
          /\ error' = "GEODATA_TYPE must be either \"Point\" or \"Polygon\""
          /\ pc' = "failed"
  /\ UNCHANGED <<varsReclass, forestAgreement, varsSieve, varsRank, varsUtm, varsPolygons,
                 script, shapefilePath, geodataType, asset, clusterBoundsFC, fetched,
                 varsExport>>

\* var clusterBoundsFC = clusterBoundingBoxes(inputForClustering);
ClusterBounds ==
  /\ pc = "clusterBoundsFC"
  /\ clusterBoundsFC' \in clusterBoundingBoxes(inputForClustering)
  /\ pc' = "roi"
  /\ UNCHANGED <<varsReclass, forestAgreement, varsSieve, varsRank, varsUtm, varsPolygons,
                 script, shapefilePath, geodataType, asset, inputForClustering,
                 error, fetched,
                 varsExport>>

\* Lines 152-157: roi is the geometry of the clusters (here the set of their
\* boxes); for points the buffered points replace shp_data.
RoiOfClusters ==
  /\ pc = "roi"
  /\ roi' = {clusterBoundsFC[k].geometry : k \in 1..Len(clusterBoundsFC)}
  /\ shp_data' = IF geodataType = "Point" THEN inputForClustering ELSE shp_data
  /\ pc' = "part4"
  /\ UNCHANGED <<varsReclass, forestAgreement, sieveThresholdPixels, smallPatches,
                 majorityClass, forestAgreementFiltered, varsRank, varsUtm,
                 targetResolution, shp_with_area, passed, stats, withPercent, below,
                 final, varsRegion, varsExport>>

\* ROI script, lines 133-136: roi must be defined (the empty set stands for
\* a variable that was never declared).
RoiCheck ==
  /\ pc = "part1"
  /\ script = "ROI"
  /\ IF roi = {}
     THEN /\ error' = "Please define a geometry variable named \"roi\""
          /\ pc' = "failed"
     ELSE /\ error' = error
          /\ pc' = "part4"
  /\ UNCHANGED <<varsReclass, forestAgreement, varsSieve, varsRank, varsUtm, varsPolygons,
                 script, shapefilePath, geodataType, asset, inputForClustering,
                 clusterBoundsFC, fetched,
                 varsExport>>

\* PART 4: each of the nine datasets is requested from the catalog over roi.
LoadDatasets ==
  /\ pc = "part4"
  /\ fetched' = {DatasetOrder[k] : k \in 1..D}
  /\ pc' = "part5"
  /\ UNCHANGED <<varsReclass, forestAgreement, varsSieve, varsRank, varsUtm, varsPolygons,
                 script, shapefilePath, geodataType, asset, inputForClustering,
                 clusterBoundsFC, error,
                 varsExport>>

----------------------------------------------------------------------------
(* PART 3: functions                                                       *)

\* Index of the first occurrence of v in list, 0 when absent.
IndexOf(list, v) ==
  LET hits == {i \in 1..Len(list) : list[i] = v}
  IN  IF hits = {} THEN 0 ELSE CHOOSE i \in hits : \A j \in hits : i <= j

\* ee.Image.remap(from, to, defaultValue) at one pixel: a masked pixel stays
\* masked; a value found in `from` maps to the parallel entry of `to`; any
\* other value maps to defaultValue.
Remap(p, from, to, defaultValue) ==
  IF p.mask = 0 THEN Masked
  ELSE LET i == IndexOf(from, p.value)
       IN  IF i = 0 THEN Pixel(defaultValue, 1) ELSE Pixel(to[i], 1)

\* ee.Image.unmask(v) at one pixel.
Unmask(p, v) == IF p.mask = 0 THEN Pixel(v, 1) ELSE p

\* Mutant of reclassifyImage: the remap without the .unmask(0).
reclassifyImageNoUnmask(img, classes) ==
  [px \in DOMAIN img |-> Remap(img[px], classes, ListRepeat(1, Len(classes)), 0)]

\* Mutant of reclassifyImage: the class lookup compares against the first class only.
reclassifyImageFirstClass(img, classes) ==
  [px \in DOMAIN img |->
     Unmask(Remap(img[px], <<classes[1]>>, <<1>>, 0), 0)]

reclassifyImage(img, classes) ==
  [px \in DOMAIN img |->
     Unmask(Remap(img[px], classes, ListRepeat(1, Len(classes)), 0), 0)]

\* reproject({crs: 'EPSG:4326', scale: TARGET_RESOLUTION}).resample(): fixes the
\* grid the image is computed on.  The rasters of the model are already
\* sampled on that grid, so the pixel values are those of the argument.
reprojectAndResample(img) == [px \in DOMAIN img |-> img[px]]

\* A grid: its CRS, its pixel size in metres and the offset of its origin
\* from the origin of the CRS, in metres.
Projection(crs, scale, origin) == [crs |-> crs, scale |-> scale, origin |-> origin]

\* The grids a dataset of the catalog may be stored on: the reference grid
\* itself, or a grid of another CRS, pixel size and origin.
NativeProjections ==
  {Projection("EPSG:4326", TARGET_RESOLUTION, 0), Projection("EPSG:32631", 10, 5)}

\* Mutant of reproject: the image keeps its grid.
reprojectKeep(proj, crs, scale) == proj

\* image.reproject({crs: crs, scale: scale}): the grid of the result, whose
\* origin is that of the CRS whatever the grid of the image.
reproject(proj, crs, scale) == Projection(crs, scale, 0)

----------------------------------------------------------------------------
(* PART 5: reclassification + reprojection                                 *)

\* One entry of reclassifiedList: the next dataset of the list is loaded
\* (any raster the provider may return) and reclassified.
ReclassifyNext ==
  /\ pc = "part5"
  /\ Len(reclassifiedList) < D
  /\ \E raw \in [SamplePixels -> RawPixels] :
       LET name == DatasetOrder[Len(reclassifiedList) + 1]
       IN  /\ image' = raw
           /\ \E native \in NativeProjections :
                /\ projection' = native
                /\ projections' =
                     Append(projections, reproject(native, "EPSG:4326", TARGET_RESOLUTION))
           /\ reclassifiedList' =
                Append(reclassifiedList,
                       reprojectAndResample(reclassifyImage(raw, forestClasses(name))))
  /\ pc' = IF Len(reclassifiedList') = D THEN "part6" ELSE "part5"
  /\ UNCHANGED <<forestAgreement, varsSieve, varsRank, varsUtm, varsPolygons, varsRegion,
                 varsExport>>

----------------------------------------------------------------------------
(* PART 6: forest agreement layer                                          *)

\* ee.Reducer.sum() over the pixels of a collection at one location:
\* masked inputs are skipped, the result is masked when all are.
RECURSIVE SumValues(_, _, _)
SumValues(list, px, i) ==
  IF i > Len(list) THEN 0
  ELSE (IF list[i][px].mask = 1 THEN list[i][px].value ELSE 0)
       + SumValues(list, px, i + 1)

AnyUnmasked(list, px) == \E i \in 1..Len(list) : list[i][px].mask = 1

\* Mutant of ReduceSum: the last image of the collection is left out.
ReduceSumDropLast(list) ==
  [px \in DOMAIN list[1] |->
     Pixel(SumValues(SubSeq(list, 1, Len(list) - 1), px, 1), 1)]

\* ee.ImageCollection(list).reduce(ee.Reducer.sum())
ReduceSum(list) ==
  [px \in DOMAIN list[1] |->
     IF AnyUnmasked(list, px) THEN Pixel(SumValues(list, px, 1), 1) ELSE Masked]

Combine ==
  /\ pc = "part6"
  /\ forestAgreement' = ReduceSum(reclassifiedList)
  /\ pc' = "smallPatches"
  /\ UNCHANGED <<varsReclass, varsSieve, varsRank, varsUtm, varsPolygons, varsRegion,
                 varsExport>>

----------------------------------------------------------------------------
(* PART 6, continued: filter out small patches and reassign                *)

\* The region of interest is a block of pixels.  Outside it every dataset is
\* masked (each is clipped to roi), so every mask and the agreement are 0
\* there: the model keeps a halo of AGREEMENT_RADIUS such pixels around the
\* block and treats everything beyond as the same value.
RoiRows == 2
RoiCols == 3

\* Largest agreement score drawn for a pixel of the block (at most D).
MaxScore == 2

\* The block and the scores drawn when SIEVE_THRESHOLD_PIXELS varies too.
CfgRoiRows == 3
CfgRoiCols == 3
CfgMaxScore == 1

\* Largest value of SIEVE_THRESHOLD_PIXELS a user is taken to configure.
MaxThreshold == 9

\* The first argument the script passes to connectedPixelCount.
ConnectedMaxSize == 8

Block(rows, cols) == (1..rows) \X (1..cols)

Halo == AGREEMENT_RADIUS

\* The pixels the model keeps: roi and the halo around it.
Grid ==
  UNION {{<<p[1] + dr, p[2] + dc>> : dr \in (0 - Halo)..Halo, dc \in (0 - Halo)..Halo} :
           p \in roi}

\* The agreement at a pixel outside roi: the sum of the nine masks of a
\* masked input pixel.
OutsideRoi ==
  ReduceSum([k \in 1..D |->
     reprojectAndResample(
       reclassifyImage([px \in SamplePixels |-> Masked],
                       forestClasses(DatasetOrder[k])))])[<<1, 1>>]

At(img, q) == IF q \in DOMAIN img THEN img[q] ELSE OutsideRoi

Min(a, b) == IF a < b THEN a ELSE b

Neighbours(q, eightConnected) ==
  IF eightConnected
  THEN {<<q[1] + dr, q[2] + dc>> : dr \in (0 - 1)..1, dc \in (0 - 1)..1} \ {q}
  ELSE {<<q[1] + 1, q[2]>>, <<q[1] - 1, q[2]>>, <<q[1], q[2] + 1>>, <<q[1], q[2] - 1>>}

\* The connected component of equal-valued unmasked pixels grown from `frontier`.
RECURSIVE Flood(_, _, _, _, _)
Flood(img, v, eightConnected, seen, frontier) ==
  IF frontier = {} THEN seen
  ELSE LET next == {q \in (UNION {Neighbours(f, eightConnected) : f \in frontier})
                            \cap DOMAIN img :
                      q \notin seen /\ img[q].mask = 1 /\ img[q].value = v}
       IN  Flood(img, v, eightConnected, seen \cup next, next)

ComponentOf(img, p, eightConnected) ==
  Flood(img, img[p].value, eightConnected, {p}, {p})

\* ee.Image.connectedPixelCount(maxSize, eightConnected): the number of
\* connected equal-valued neighbours of each pixel, itself included, counted
\* up to maxSize.
connectedPixelCount(img, maxSize, eightConnected) ==
  [p \in DOMAIN img |->
     IF img[p].mask = 0 THEN Masked
     ELSE Pixel(Min(Cardinality(ComponentOf(img, p, eightConnected)), maxSize), 1)]

\* ee.Image.lt(c)
Lt(img, c) ==
  [p \in DOMAIN img |->
     IF img[p].mask = 0 THEN Masked
     ELSE Pixel(IF img[p].value < c THEN 1 ELSE 0, 1)]

\* The square kernel of `radius` pixels around p.
Window(p, radius) ==
  {<<p[1] + dr, p[2] + dc>> : dr \in (0 - radius)..radius, dc \in (0 - radius)..radius}

\* The most frequent unmasked values of the window; more than one on a tie.
ModeValues(img, p, radius) ==
  LET win == {q \in Window(p, radius) : At(img, q).mask = 1}
      vals == {At(img, q).value : q \in win}
      count(v) == Cardinality({q \in win : At(img, q).value = v})
  IN  {v \in vals : \A w \in vals : count(w) <= count(v)}

\* ee.Image.focalMode(radius, 'square', 'pixels'): every raster the reducer
\* may return; the engine's choice among tied modes is not documented.
RECURSIVE FocalModeRasters(_, _, _, _)
FocalModeRasters(img, radius, todo, acc) ==
  IF todo = {} THEN {acc}
  ELSE LET p == CHOOSE q \in todo : TRUE
           modes == ModeValues(img, p, radius)
       IN  IF modes = {}
           THEN FocalModeRasters(img, radius, todo \ {p}, acc)
           ELSE UNION {FocalModeRasters(img, radius, todo \ {p},
                                        [acc EXCEPT ![p] = Pixel(m, 1)]) : m \in modes}

\* Mutant of focalMode: the kernel reaches one pixel further than the radius.
focalModeWider(img, radius) ==
  FocalModeRasters(img, radius + 1, DOMAIN img, [p \in DOMAIN img |-> Masked])

focalMode(img, radius) ==
  FocalModeRasters(img, radius, DOMAIN img, [p \in DOMAIN img |-> Masked])

\* ee.Image.where(test, value)
Where(input, test, value) ==
  [p \in DOMAIN input |->
     IF input[p].mask = 0 \/ test[p].mask = 0 THEN Masked
     ELSE IF test[p].value # 0 THEN value[p]
     ELSE input[p]]

\* ee.Image.clip(region)
Clip(img, region) == [p \in DOMAIN img |-> IF p \in region THEN img[p] ELSE Masked]

\* var smallPatches = forestAgreement.connectedPixelCount(8).lt(SIEVE_THRESHOLD_PIXELS);
SmallPatches ==
  /\ pc = "smallPatches"
  /\ smallPatches' =
       Lt(connectedPixelCount(forestAgreement, ConnectedMaxSize, TRUE),
          sieveThresholdPixels)
  /\ pc' = "majorityClass"
  /\ UNCHANGED <<varsReclass, roi, forestAgreement, sieveThresholdPixels,
                 majorityClass, forestAgreementFiltered, varsRank,
                 varsUtm, varsPolygons, varsRegion, varsExport>>

\* var majorityClass = forestAgreement.focalMode(AGREEMENT_RADIUS, 'square', 'pixels');
MajorityClass ==
  /\ pc = "majorityClass"
  /\ majorityClass' \in focalMode(forestAgreement, AGREEMENT_RADIUS)
  /\ pc' = "filtered"
  /\ UNCHANGED <<varsReclass, roi, forestAgreement, sieveThresholdPixels,
                 smallPatches, forestAgreementFiltered, varsRank,
                 varsUtm, varsPolygons, varsRegion, varsExport>>

\* var forestAgreementFiltered = forestAgreement.where(smallPatches, majorityClass).clip(roi);
\* (the ROI script has no .clip(roi) here)
Filtered ==
  /\ pc = "filtered"
  /\ forestAgreementFiltered' =
       IF script = "GEODATA"
       THEN Clip(Where(forestAgreement, smallPatches, majorityClass), roi)
       ELSE Where(forestAgreement, smallPatches, majorityClass)
  /\ pc' = "part7"
  /\ UNCHANGED <<varsReclass, roi, forestAgreement, sieveThresholdPixels,
                 smallPatches, majorityClass, varsRank,
                 varsUtm, varsPolygons, varsRegion, varsExport>>

\* The agreement rasters Part 6 may produce on a region: any score up to
\* maxScore on the region, OutsideRoi around it.
AgreementRasters(region, maxScore) ==
  LET grid == UNION {Window(p, Halo) : p \in region}
  IN  {[p \in grid |-> IF p \in region THEN Pixel(scores[p], 1) ELSE OutsideRoi] :
         scores \in [region -> 0..maxScore]}

----------------------------------------------------------------------------
(* PART 9: forest extent summary                                           *)

\* Forest_pct_total values drawn for a dataset, in percent.
PctValues == {0, 30, 50}

forestLayers ==
  <<"JRC", "ESRI-10m", "DynamicWorld", "GLC-FCS30D", "FROM-GLC10", "GLCLU2020",
    "PALSAR-2 FNF", "ETH", "GFT">>

\* How the engine orders rows of equal sort key; not documented.
TieOrders == {"first-in-first", "last-in-first"}

\* Insert row into the descending list `sorted`.
RECURSIVE InsertDescending(_, _, _, _)
InsertDescending(sorted, row, i, tieOrder) ==
  IF i > Len(sorted) THEN Append(sorted, row)
  ELSE IF \/ sorted[i].Forest_pct_total < row.Forest_pct_total
          \/ /\ sorted[i].Forest_pct_total = row.Forest_pct_total
             /\ tieOrder = "last-in-first"
       THEN SubSeq(sorted, 1, i - 1) \o <<row>> \o SubSeq(sorted, i, Len(sorted))
       ELSE InsertDescending(sorted, row, i + 1, tieOrder)

\* fc.sort('Forest_pct_total', false)
RECURSIVE SortDescending(_, _, _)
SortDescending(table, n, tieOrder) ==
  IF n = 0 THEN <<>>
  ELSE InsertDescending(SortDescending(table, n - 1, tieOrder), table[n], 1, tieOrder)

\* Mutant of RankOf: the position of the row in a listing by descending
\* Forest_pct_total that keeps rows of equal value in the order of the table.
RankOfPosition(table, feat) ==
  1 + Cardinality({i \in 1..Len(table) :
                     \/ table[i].Forest_pct_total > feat.Forest_pct_total
                     \/ /\ table[i].Forest_pct_total = feat.Forest_pct_total
                        /\ \E j \in 1..Len(table) : j > i /\ table[j] = feat})

\* Mutant of RankOf: ee.Filter.gte in place of ee.Filter.gt.
RankOfGte(table, feat) ==
  1 + Cardinality({i \in 1..Len(table) :
                     table[i].Forest_pct_total >= feat.Forest_pct_total})

\* ee.Number(1).add(fc.filter(ee.Filter.gt('Forest_pct_total',
\*                                          feat.get('Forest_pct_total'))).size())
RankOf(table, feat) ==
  1 + Cardinality({i \in 1..Len(table) :
                     table[i].Forest_pct_total > feat.Forest_pct_total})

\* fc.sort('Forest_pct_total', false).map(function(feat) {... feat.set('Rank', rank)})
Ranked(table, tieOrder) ==
  LET sorted == SortDescending(table, Len(table), tieOrder)
  IN  [i \in 1..Len(sorted) |->
         [Layer |-> sorted[i].Layer,
          Forest_pct_total |-> sorted[i].Forest_pct_total,
          Rank |-> RankOf(table, sorted[i])]]

\* ee.FeatureCollection(statsList) for the given percentages, one row per layer.
StatsTable(layers, pcts) ==
  [k \in 1..Len(layers) |-> [Layer |-> layers[k], Forest_pct_total |-> pcts[k]]]

\* var fc = ee.FeatureCollection(statsList): any forest share per layer.
StatsList ==
  /\ pc = "statsList"
  /\ \E pcts \in [1..Len(forestLayers) -> PctValues] :
       fc' = StatsTable(forestLayers, pcts)
  /\ pc' = "ranked"
  /\ UNCHANGED <<varsReclass, forestAgreement, varsSieve, ranked, varsUtm, varsPolygons,
                 varsRegion, varsExport>>

\* var ranked = fc.sort(...).map(...)
RankRows ==
  /\ pc = "ranked"
  /\ \E tieOrder \in TieOrders : ranked' = Ranked(fc, tieOrder)
  /\ pc' = "done"
  /\ UNCHANGED <<varsReclass, forestAgreement, varsSieve, fc, varsUtm, varsPolygons,
                 varsRegion, varsExport>>

----------------------------------------------------------------------------
(* PARTS 8 and 10: best-fit UTM EPSG code                                  *)

\* Coordinates are counted in units of 1/CoordScale degree.
CoordScale == 2

Longitudes == ((0 - 180) * CoordScale)..(180 * CoordScale)

Latitudes ==
  {(0 - 90) * CoordScale, (0 - 5) * CoordScale, 0 - 1, 0, 1, 52 * CoordScale,
   90 * CoordScale}

DigitChar == <<"0", "1", "2", "3", "4", "5", "6", "7", "8", "9">>

\* The decimal digits of n >= 0.
RECURSIVE Decimal(_)
Decimal(n) ==
  IF n < 10 THEN DigitChar[n + 1]
  ELSE Decimal(n \div 10) \o DigitChar[(n % 10) + 1]

\* ee.Number.format('%02d'): at least two characters, padded with zeros.
Format02d(n) ==
  IF n < 0 THEN "-" \o Decimal(0 - n)
  ELSE IF n < 10 THEN "0" \o Decimal(n)
  ELSE Decimal(n)

\* lon.add(180).divide(6).floor().add(1), lon in units of 1/CoordScale degree.
\* function getUTMZone(lon) of Part 10.
getUTMZone(lon) == ((lon + 180 * CoordScale) \div (6 * CoordScale)) + 1

\* Mutant of getUTMEPSG: the hemisphere test is lat.gte(0).
getUTMEPSGGte(c) ==
  LET utmZone == ((c.lon + 180 * CoordScale) \div (6 * CoordScale)) + 1
  IN  IF c.lat >= 0
      THEN "EPSG:326" \o Format02d(utmZone)
      ELSE "EPSG:327" \o Format02d(utmZone)

\* function getUTMEPSG(geometry) of Part 8, on the geometry's centroid.
getUTMEPSG(c) ==
  LET utmZone == ((c.lon + 180 * CoordScale) \div (6 * CoordScale)) + 1
  IN  IF c.lat > 0
      THEN "EPSG:326" \o Format02d(utmZone)
      ELSE "EPSG:327" \o Format02d(utmZone)

\* var epsgCode = ee.Algorithms.If(isNorthern, ...) of Part 10.
EpsgCodeOf(longitude, latitude) ==
  LET utmZone == getUTMZone(longitude)
      isNorthern == latitude > 0
  IN  IF isNorthern
      THEN "EPSG:326" \o Format02d(utmZone)
      ELSE "EPSG:327" \o Format02d(utmZone)

\* Part 10 runs synchronously (getInfo), before any export callback of Part 8.
EpsgCode ==
  /\ pc = "epsgCode"
  /\ epsgCode' = EpsgCodeOf(centroid.lon, centroid.lat)
  /\ pc' = "getUTMEPSG"
  /\ UNCHANGED <<varsReclass, forestAgreement, varsSieve, varsRank, centroid, epsg,
                 varsPolygons, varsRegion, varsExport>>

\* getUTMEPSG(geom) called for an export region with the same centroid.
GetUTMEPSG ==
  /\ pc = "getUTMEPSG"
  /\ epsg' = getUTMEPSG(centroid)
  /\ pc' = "done"
  /\ UNCHANGED <<varsReclass, forestAgreement, varsSieve, varsRank, centroid,
                 epsgCode, varsPolygons, varsRegion, varsExport>>

----------------------------------------------------------------------------
(* PART 10: forest agreement assessment by production polygon              *)

\* Largest number of analysis polygons in shp_data.
MaxPolygons == 2

\* Geometry areas drawn for a polygon, in square metres.
AreasM2 == {4900, 4999, 5000, 5100, 20000}

\* Values of TARGET_RESOLUTION a user is taken to configure, in metres.
Resolutions == {10, TARGET_RESOLUTION, 100}

\* Exact fractions stand for the script's floating-point numbers.
Rat(n, d) == [num |-> n, den |-> d]

RatLt(a, b) == a.num * b.den < b.num * a.den

RatDiv(a, b) == Rat(a.num * b.den, a.den * b.num)

Null == [kind |-> "null"]

Number(r) == [kind |-> "number", num |-> r.num, den |-> r.den]

\* Mutant of addAreaAndCheck: the comparisons are "at most" (lte).
addAreaAndCheckLte(feature, resolution) ==
  LET area_m2 == Rat(feature.area, 1)
      area_ha == RatDiv(area_m2, Rat(10000, 1))
      pixelArea_m2 == Rat(resolution * resolution, 1)
      minPixels == RatDiv(Rat(5 * 10000, 10), pixelArea_m2)
      approxPixels == RatDiv(area_m2, pixelArea_m2)
      isBelow == \/ ~RatLt(minPixels, approxPixels)
                 \/ ~RatLt(Rat(5, 10), area_ha)
  IN  [id |-> feature.id, area |-> feature.area,
       area_m2 |-> area_m2, area_ha |-> area_ha,
       area_check |-> IF isBelow THEN "below 0.5ha" ELSE ""]

\* var addAreaAndCheck = function(feature) {...}
addAreaAndCheck(feature, resolution) ==
  LET area_m2 == Rat(feature.area, 1)
      area_ha == RatDiv(area_m2, Rat(10000, 1))
      pixelArea_m2 == Rat(resolution * resolution, 1)
      minPixels == RatDiv(Rat(5 * 10000, 10), pixelArea_m2)
      approxPixels == RatDiv(area_m2, pixelArea_m2)
      isBelow == \/ RatLt(approxPixels, minPixels)
                 \/ RatLt(area_ha, Rat(5, 10))
  IN  [id |-> feature.id, area |-> feature.area,
       area_m2 |-> area_m2, area_ha |-> area_ha,
       area_check |-> IF isBelow THEN "below 0.5ha" ELSE ""]

\* shp_with_area.filter(ee.Filter.neq('area_check', 'below 0.5ha'))
passedOf(shpWithArea) ==
  SelectSeq(shpWithArea, LAMBDA f : f.area_check # "below 0.5ha")

\* Mutant of belowOf: the flag text of the filter differs from the one set.
belowOfOtherFlag(shpWithArea) ==
  LET flagged == SelectSeq(shpWithArea, LAMBDA f : f.area_check = "below 0.5 ha")
  IN  [i \in 1..Len(flagged) |->
         [id |-> flagged[i].id, area |-> flagged[i].area,
          area_m2 |-> flagged[i].area_m2, area_ha |-> flagged[i].area_ha,
          area_check |-> flagged[i].area_check, forestagree |-> Null]]

\* shp_with_area.filter(ee.Filter.equals('area_check', 'below 0.5ha'))
\*              .map(function(f) { return f.set('forestagree', null); })
belowOf(shpWithArea) ==
  LET flagged == SelectSeq(shpWithArea, LAMBDA f : f.area_check = "below 0.5ha")
  IN  [i \in 1..Len(flagged) |->
         [id |-> flagged[i].id, area |-> flagged[i].area,
          area_m2 |-> flagged[i].area_m2, area_ha |-> flagged[i].area_ha,
          area_check |-> flagged[i].area_check, forestagree |-> Null]]

\* By how much the pixel area summed over a polygon may exceed the area
\* geom.area({'maxError': 1}) returned for it, in square metres: area_m2 is
\* computed within an error margin, and the weighted reducer takes the
\* fraction of each pixel of the UTM grid that the polygon covers only
\* approximately, so the two measures of the same polygon differ.
AreaErrorM2 == 1

\* The sums reduceRegions may return for a polygon: the area of its pixels
\* of score 6..9, from none of it to all of it; all of it is the measure of
\* the polygon on the pixel grid, area_m2 give or take AreaErrorM2.
SumChoices(f) ==
  {0, f.area \div 2, f.area - AreaErrorM2, f.area, f.area + AreaErrorM2}

\* The function mapped over stats: forestagree from sum and area_m2.
percentOf(feature) ==
  LET area6_9_m2 == IF feature.sum < 0 THEN 0 ELSE feature.sum
      poly_area_m2 == IF feature.area_m2.num # 0
                      THEN feature.area_m2 ELSE Rat(feature.area, 1)
      percent == IF RatLt(Rat(0, 1), poly_area_m2)
                 THEN Rat(area6_9_m2 * poly_area_m2.den * 100, poly_area_m2.num)
                 ELSE Rat(0, 1)
  IN  [id |-> feature.id, area |-> feature.area, area_m2 |-> feature.area_m2,
       area_ha |-> feature.area_ha, area_check |-> feature.area_check,
       sum |-> feature.sum, forestagree |-> Number(percent)]

\* ee.FeatureCollection.merge
Merge(a, b) == a \o b

\* var shp_with_area = shp_data.map(addAreaAndCheck);
ShpWithArea ==
  /\ pc = "shp_with_area"
  /\ shp_with_area' = [i \in 1..Len(shp_data) |->
                        addAreaAndCheck(shp_data[i], targetResolution)]
  /\ pc' = "passed"
  /\ UNCHANGED <<varsReclass, forestAgreement, varsSieve, varsRank, varsUtm, varsRegion,
                 varsExport,
                 targetResolution, shp_data, passed, stats, withPercent, below, final>>

\* var passed = shp_with_area.filter(...)
Passed ==
  /\ pc = "passed"
  /\ passed' = passedOf(shp_with_area)
  /\ pc' = "stats"
  /\ UNCHANGED <<varsReclass, forestAgreement, varsSieve, varsRank, varsUtm, varsRegion,
                 varsExport,
                 targetResolution, shp_data, shp_with_area, stats, withPercent,
                 below, final>>

\* var stats = maskAreaImg.reduceRegions({collection: passed, ...})
Stats ==
  /\ pc = "stats"
  /\ \E sums \in [1..Len(passed) -> UNION {SumChoices(passed[i]) : i \in 1..Len(passed)}] :
       /\ \A i \in 1..Len(passed) : sums[i] \in SumChoices(passed[i])
       /\ stats' = [i \in 1..Len(passed) |->
                      [id |-> passed[i].id, area |-> passed[i].area,
                       area_m2 |-> passed[i].area_m2, area_ha |-> passed[i].area_ha,
                       area_check |-> passed[i].area_check, sum |-> sums[i]]]
  /\ pc' = "withPercent"
  /\ UNCHANGED <<varsReclass, forestAgreement, varsSieve, varsRank, varsUtm, varsRegion,
                 varsExport,
                 targetResolution, shp_data, shp_with_area, passed, withPercent,
                 below, final>>

\* var withPercent = stats.map(...)
WithPercent ==
  /\ pc = "withPercent"
  /\ withPercent' = [i \in 1..Len(stats) |-> percentOf(stats[i])]
  /\ pc' = "below"
  /\ UNCHANGED <<varsReclass, forestAgreement, varsSieve, varsRank, varsUtm, varsRegion,
                 varsExport,
                 targetResolution, shp_data, shp_with_area, passed, stats, below, final>>

\* var below = shp_with_area.filter(...).map(...)
Below ==
  /\ pc = "below"
  /\ below' = belowOf(shp_with_area)
  /\ pc' = "final"
  /\ UNCHANGED <<varsReclass, forestAgreement, varsSieve, varsRank, varsUtm, varsRegion,
                 varsExport,
                 targetResolution, shp_data, shp_with_area, passed, stats,
                 withPercent, final>>

\* var final = withPercent.merge(below);
Final ==
  /\ pc = "final"
  /\ final' = Merge(withPercent, below)
  /\ pc' = "done"
  /\ UNCHANGED <<varsReclass, forestAgreement, varsSieve, varsRank, varsUtm, varsRegion,
                 varsExport,
                 targetResolution, shp_data, shp_with_area, passed, stats,
                 withPercent, below>>

----------------------------------------------------------------------------
(* PARTS 7 and 8: visualisation and export                                 *)

\* The export model draws a pixel one degree wide, so that regions of a few
\* pixels reach across UTM zones and the equator.  OriginLon and OriginLat
\* are the west and south edges of pixel <<1, 1>>, in degrees.
OriginLon == 4
OriginLat == 0 - 1

\* The pixels a region of the export model may hold.
ExportRows == 4
ExportCols == 4

\* Part 0B and 0C settings.
EXPORT_DESCRIPTION == "ForestAgreement_2020"
EXPORT_ASSET_ID == "users/your_username/ForestAgreement_2020"
numRows == 2
numCols == 2

\* Largest numRows and numCols a user is taken to configure.
MaxGridSize == 3

\* The values of EXPORT_TARGET: the two documented ones and the one the
\* comment of the GEODATA script spells.
ExportTargets == {"Drive", "Asset", "Dsset"}

\* ee.Geometry.Rectangle([x0, y0, x1, y1]), in units of 1/CoordScale degree.
Rectangle(x0, y0, x1, y1) == [xmin |-> x0, xmax |-> x1, ymin |-> y0, ymax |-> y1]

\* The rectangle around the pixels of rows r1..r2 and columns c1..c2.
RectOfBlock(r1, r2, c1, c2) ==
  Rectangle((OriginLon + c1 - 1) * CoordScale, (OriginLat + r1 - 1) * CoordScale,
            (OriginLon + c2) * CoordScale, (OriginLat + r2) * CoordScale)

\* The pixels whose centre lies in the rectangle (coordinates doubled).
CellsOf(rect) ==
  {q \in Block(ExportRows, ExportCols) :
     LET cx == 2 * (OriginLon + q[2] - 1) * CoordScale + CoordScale
         cy == 2 * (OriginLat + q[1] - 1) * CoordScale + CoordScale
     IN  /\ 2 * rect.xmin <= cx /\ cx <= 2 * rect.xmax
         /\ 2 * rect.ymin <= cy /\ cy <= 2 * rect.ymax}

\* roi.bounds() of a region of pixels.
BoundsOfCells(region) ==
  RectOfBlock(MinOf({q[1] : q \in region}), MaxOf({q[1] : q \in region}),
              MinOf({q[2] : q \in region}), MaxOf({q[2] : q \in region}))

\* filterBounds: the rectangle and the region share at least a point.
Intersects(rect, region) ==
  \E q \in region :
    LET cell == RectOfBlock(q[1], q[1], q[2], q[2])
    IN  /\ rect.xmin <= cell.xmax /\ cell.xmin <= rect.xmax
        /\ rect.ymin <= cell.ymax /\ cell.ymin <= rect.ymax

\* geometry.centroid(1).coordinates()
CentroidOf(rect) ==
  [lon |-> (rect.xmin + rect.xmax) \div 2, lat |-> (rect.ymin + rect.ymax) \div 2]

\* Mutant of Cast: the values are kept in four bits.
CastNibble(img, lo, hi) ==
  [q \in DOMAIN img |->
     IF img[q].mask = 0 THEN Masked
     ELSE Pixel(IF img[q].value < 0 THEN 0
                ELSE IF img[q].value > 7 THEN 7 ELSE img[q].value, 1)]

\* A cast to an integer type of range lo..hi: values outside are clamped.
Cast(img, lo, hi) ==
  [q \in DOMAIN img |->
     IF img[q].mask = 0 THEN Masked
     ELSE Pixel(IF img[q].value < lo THEN lo
                ELSE IF img[q].value > hi THEN hi ELSE img[q].value, 1)]

\* ee.Image.toInt16()
toInt16(img) == Cast(img, 0 - 32768, 32767)

\* ee.Image.toByte()
toByte(img) == Cast(img, 0, 255)

\* ee.Reducer.count() over a geometry: the unmasked pixels in it.
PixelCount(img, geom) ==
  Cardinality({q \in DOMAIN img : q \in CellsOf(geom) /\ img[q].mask = 1})

\* What evaluate() hands to its callback: the number, or undefined when the
\* computation failed.
Undefined == [kind |-> "undefined"]

NumberOf(n) == [kind |-> "number", num |-> n]

\* Mutant of clusterName: the number is the rank of arrival of the callback.
clusterNameByArrival(clusterIndex) == "Cluster_" \o Decimal(Len(tasks) + 1)

\* 'Cluster_' + (clusterIndex + 1)
clusterName(clusterIndex) == "Cluster_" \o Decimal(clusterIndex + 1)

\* EXPORT_DESCRIPTION + '_tile_' + i
tileName(i) == EXPORT_DESCRIPTION \o "_tile_" \o Decimal(i)

\* Mutant of tileGrid: the tile size is cut to a whole number of units.
tileGridTruncated(extent, rows, cols) ==
  LET minLon == extent.xmin
      maxLon == extent.xmax
      minLat == extent.ymin
      maxLat == extent.ymax
      gridSizeLon == ((maxLon - minLon) \div cols) * cols
      gridSizeLat == ((maxLat - minLat) \div rows) * rows
  IN  [n \in 1..(cols * rows) |->
         LET col == (n - 1) \div rows
             row == (n - 1) % rows
             lon0 == minLon * cols + col * gridSizeLon
             lat0 == minLat * rows + row * gridSizeLat
         IN  [geometry |-> Rectangle(lon0, lat0, lon0 + gridSizeLon, lat0 + gridSizeLat),
              col |-> col, row |-> row]]

\* The tiles of PART 8 of the ROI script, columns outside and rows inside,
\* before filterBounds.  The divisions by numCols and numRows are exact: a
\* longitude of the result is counted in units of 1/(CoordScale * cols)
\* degree and a latitude in units of 1/(CoordScale * rows) degree, so that
\* gridSizeLon is (maxLon - minLon) and gridSizeLat is (maxLat - minLat) of
\* these units.
tileGrid(extent, rows, cols) ==
  LET minLon == extent.xmin
      maxLon == extent.xmax
      minLat == extent.ymin
      maxLat == extent.ymax
      gridSizeLon == maxLon - minLon
      gridSizeLat == maxLat - minLat
  IN  [n \in 1..(cols * rows) |->
         LET col == (n - 1) \div rows
             row == (n - 1) % rows
             lon0 == minLon * cols + col * gridSizeLon
             lat0 == minLat * rows + row * gridSizeLat
         IN  [geometry |-> Rectangle(lon0, lat0, lon0 + gridSizeLon, lat0 + gridSizeLat),
              col |-> col, row |-> row]]

\* The tiles in units of 1/CoordScale degree (the regions of the export
\* model have tiles of whole pixels, so the change of unit is exact there).
InCoordUnits(grid, rows, cols) ==
  [n \in DOMAIN grid |->
     [geometry |-> Rectangle(grid[n].geometry.xmin \div cols,
                             grid[n].geometry.ymin \div rows,
                             grid[n].geometry.xmax \div cols,
                             grid[n].geometry.ymax \div rows),
      col |-> grid[n].col, row |-> grid[n].row]]

\* Mutant of filterBounds: every feature is kept.
filterBoundsKeepAll(coll, region) == coll

\* ee.FeatureCollection.filterBounds(region)
RECURSIVE filterBounds(_, _)
filterBounds(coll, region) ==
  IF coll = <<>> THEN <<>>
  ELSE IF Intersects(Head(coll).geometry, region)
       THEN <<Head(coll)>> \o filterBounds(Tail(coll), region)
       ELSE filterBounds(Tail(coll), region)

\* PART 7.  GEODATA: the layers are added in a callback of
\* clusterBoundsFC.evaluate; ROI: they are added at once.
Visualise ==
  /\ pc = "part7"
  /\ IF script = "GEODATA"
     THEN /\ pending' = pending \cup {[kind |-> "visualise", i |-> 0]}
          /\ mapLayers' = mapLayers
     ELSE /\ pending' = pending
          /\ mapLayers' =
               {[name |-> "Forest Agreement Buffer (Filtered)",
                 image |-> forestAgreementFiltered],
                [name |-> "Forest Agreement Buffer (Raw)", image |-> forestAgreement]}
  /\ pc' = "part8"
  /\ UNCHANGED <<varsReclass, forestAgreement, varsSieve, varsRank, varsUtm, varsPolygons,
                 varsRegion, exportTarget, tiling, tileFeatures, forestAgreementExport, tileFC,
                 clipped, counts, tasks, log, mask6to9>>

\* GEODATA, PART 7: the callback of clusterBoundsFC.evaluate.
VisualiseCallback ==
  /\ pc = "callbacks"
  /\ [kind |-> "visualise", i |-> 0] \in pending
  /\ pending' = pending \ {[kind |-> "visualise", i |-> 0]}
  /\ mapLayers' =
       IF Len(clusterBoundsFC) > 0
       THEN LET clusterGeom == clusterBoundsFC[1].geometry
            IN  {[name |-> "Forest Agreement (Raw) - Cluster 1",
                  image |-> Clip(forestAgreement, CellsOf(clusterGeom))],
                 [name |-> "Forest Agreement (Filtered) - Cluster 1",
                  image |-> Clip(forestAgreementFiltered, CellsOf(clusterGeom))]}
       ELSE mapLayers
  /\ UNCHANGED <<pc, varsReclass, forestAgreement, varsSieve, varsRank, varsUtm,
                 varsPolygons, varsRegion, exportTarget, tiling, tileFeatures,
                 forestAgreementExport, tileFC, clipped, counts, tasks, log, mask6to9>>

\* ROI, PART 8, lines 326-357: the bounds of roi, the tile size and the tiles.
TileFeatures ==
  /\ pc = "part8"
  /\ script = "ROI"
  /\ tileFeatures' = tileGrid(BoundsOfCells(roi), tiling.numRows, tiling.numCols)
  /\ pc' = "tileFC"
  /\ UNCHANGED <<varsReclass, forestAgreement, varsSieve, varsRank, varsUtm, varsPolygons,
                 varsRegion, exportTarget, tiling, mapLayers, forestAgreementExport,
                 tileFC, clipped, counts, pending, tasks, log, mask6to9>>

\* PART 8, top level.  GEODATA: clusterBoundsFC.evaluate(...) is requested.
\* ROI: the raster is clipped and cast once, the tiles are filtered, and
\* tileFC.toList(...).evaluate(...) is requested.
ExportRequest ==
  /\ pc = IF script = "GEODATA" THEN "part8" ELSE "tileFC"
  /\ IF script = "GEODATA"
     THEN /\ pending' = pending \cup {[kind |-> "clusterBoundsFC", i |-> 0]}
          /\ UNCHANGED <<forestAgreementExport, tileFC>>
          /\ pc' = "part10"
     ELSE /\ forestAgreementExport' = toByte(Clip(forestAgreementFiltered, roi))
          /\ tileFC' =
               filterBounds(InCoordUnits(tileFeatures, tiling.numRows, tiling.numCols), roi)
          /\ pending' = pending \cup {[kind |-> "tileList", i |-> 0]}
          /\ pc' = "callbacks"
  /\ UNCHANGED <<varsReclass, forestAgreement, varsSieve, varsRank, varsUtm, varsPolygons,
                 varsRegion, exportTarget, tiling, tileFeatures, mapLayers, clipped,
                 counts, tasks, log, mask6to9>>

\* Mutant of Mask6to9: the mask is taken from the unfiltered raster.
Mask6to9OfRaw ==
  /\ pc = "part10"
  /\ mask6to9' =
       [q \in DOMAIN forestAgreement |->
          IF forestAgreement[q].mask = 0 \/ q \notin roi THEN Pixel(0, 1)
          ELSE Pixel(IF forestAgreement[q].value >= 6 /\ forestAgreement[q].value <= 9
                     THEN 1 ELSE 0, 1)]
  /\ pc' = "callbacks"
  /\ UNCHANGED <<varsReclass, forestAgreement, varsSieve, varsRank, varsUtm, varsPolygons,
                 varsRegion, exportTarget, tiling, tileFeatures, mapLayers, forestAgreementExport,
                 tileFC, clipped, counts, pending, tasks, log>>

\* GEODATA, PART 10, line 580: the mask of the pixels with agreement 6..9.
\* PART 10 runs to its end before any callback does.
Mask6to9 ==
  /\ pc = "part10"
  /\ mask6to9' =
       [q \in DOMAIN forestAgreementFiltered |->
          IF forestAgreementFiltered[q].mask = 0 THEN Pixel(0, 1)
          ELSE Pixel(IF /\ forestAgreementFiltered[q].value >= 6
                        /\ forestAgreementFiltered[q].value <= 9
                     THEN 1 ELSE 0, 1)]
  /\ pc' = "callbacks"
  /\ UNCHANGED <<varsReclass, forestAgreement, varsSieve, varsRank, varsUtm, varsPolygons,
                 varsRegion, exportTarget, tiling, tileFeatures, mapLayers, forestAgreementExport,
                 tileFC, clipped, counts, pending, tasks, log>>

\* GEODATA, lines 434-438 and 368-388: the callback of clusterBoundsFC.evaluate
\* calls exportClusterGeoTIFF for each cluster, which clips and casts the
\* raster and requests the pixel count.
ClustersCallback ==
  /\ pc = "callbacks"
  /\ [kind |-> "clusterBoundsFC", i |-> 0] \in pending
  /\ clipped' =
       [n \in 1..Len(clusterBoundsFC) |->
          toInt16(Clip(forestAgreementFiltered, CellsOf(clusterBoundsFC[n].geometry)))]
  /\ counts' = [n \in 1..Len(clusterBoundsFC) |-> [kind |-> "pending"]]
  /\ pending' = (pending \ {[kind |-> "clusterBoundsFC", i |-> 0]})
                  \cup {[kind |-> "count", i |-> n - 1] : n \in 1..Len(clusterBoundsFC)}
  /\ UNCHANGED <<pc, varsReclass, forestAgreement, varsSieve, varsRank, varsUtm,
                 varsPolygons, varsRegion, exportTarget, tiling, tileFeatures, mapLayers,
                 forestAgreementExport, tileFC, tasks, log, mask6to9>>

\* GEODATA, lines 390-425: the callback of ee.Number(pixelCount).evaluate.
CountCallback(clusterIndex) ==
  /\ pc = "callbacks"
  /\ [kind |-> "count", i |-> clusterIndex] \in pending
  /\ LET geom == clusterBoundsFC[clusterIndex + 1].geometry
     IN  \E count \in {NumberOf(PixelCount(clipped[clusterIndex + 1], geom)), Undefined} :
           /\ counts' = [counts EXCEPT ![clusterIndex + 1] = count]
           /\ IF count.kind = "number" /\ count.num > 0
              THEN /\ pending' = (pending \ {[kind |-> "count", i |-> clusterIndex]})
                                   \cup {[kind |-> "epsg", i |-> clusterIndex]}
                   /\ log' = log
              ELSE /\ pending' = pending \ {[kind |-> "count", i |-> clusterIndex]}
                   /\ log' = Append(log, [text |-> "Skipping",
                                          unit |-> clusterName(clusterIndex)])
  /\ UNCHANGED <<pc, varsReclass, forestAgreement, varsSieve, varsRank, varsUtm,
                 varsPolygons, varsRegion, exportTarget, tiling, tileFeatures, mapLayers,
                 forestAgreementExport, tileFC, clipped, tasks, mask6to9>>

\* GEODATA, lines 392-420: the callback of epsg.evaluate.
EpsgCallback(clusterIndex) ==
  /\ pc = "callbacks"
  /\ [kind |-> "epsg", i |-> clusterIndex] \in pending
  /\ pending' = pending \ {[kind |-> "epsg", i |-> clusterIndex]}
  /\ log' = Append(log, [text |-> "Exporting", unit |-> clusterName(clusterIndex)])
  /\ LET geom == clusterBoundsFC[clusterIndex + 1].geometry
         epsgStr == getUTMEPSG(CentroidOf(geom))
         descriptionDrive ==
           EXPORT_DESCRIPTION \o "_" \o clusterName(clusterIndex) \o "_Drive"
         descriptionAsset ==
           EXPORT_DESCRIPTION \o "_" \o clusterName(clusterIndex) \o "_Asset"
         assetId == EXPORT_ASSET_ID \o "_" \o clusterName(clusterIndex)
     IN  IF exportTarget = "Drive"
         THEN tasks' = Append(tasks,
                [kind |-> "toDrive", image |-> clipped[clusterIndex + 1],
                 description |-> descriptionDrive, fileNamePrefix |-> descriptionDrive,
                 region |-> geom, scale |-> TARGET_RESOLUTION, crs |-> epsgStr])
         ELSE IF exportTarget = "Asset"
         THEN tasks' = Append(tasks,
                [kind |-> "toAsset", image |-> clipped[clusterIndex + 1],
                 description |-> descriptionAsset, assetId |-> assetId,
                 region |-> geom, scale |-> TARGET_RESOLUTION, crs |-> epsgStr])
         ELSE tasks' = tasks
  /\ UNCHANGED <<pc, varsReclass, forestAgreement, varsSieve, varsRank, varsUtm,
                 varsPolygons, varsRegion, exportTarget, tiling, tileFeatures, mapLayers,
                 forestAgreementExport, tileFC, clipped, counts, mask6to9>>

\* ROI, lines 364-372: the callback of tileFC.toList(...).evaluate requests
\* the CRS of each tile.
TileListCallback ==
  /\ pc = "callbacks"
  /\ [kind |-> "tileList", i |-> 0] \in pending
  /\ pending' = (pending \ {[kind |-> "tileList", i |-> 0]})
                  \cup {[kind |-> "crs", i |-> n - 1] : n \in 1..Len(tileFC)}
  /\ UNCHANGED <<pc, varsReclass, forestAgreement, varsSieve, varsRank, varsUtm,
                 varsPolygons, varsRegion, exportTarget, tiling, tileFeatures, mapLayers,
                 forestAgreementExport, tileFC, clipped, counts, tasks, log, mask6to9>>

\* ROI, lines 372-401: the callback of getUTMEPSG(geom).evaluate.
TileCrsCallback(i) ==
  /\ pc = "callbacks"
  /\ [kind |-> "crs", i |-> i] \in pending
  /\ pending' = pending \ {[kind |-> "crs", i |-> i]}
  /\ LET geom == tileFC[i + 1].geometry
         crsStr == getUTMEPSG(CentroidOf(geom))
         descDrive == tileName(i) \o "_Drive"
         descAsset == tileName(i) \o "_Asset"
         assetId == EXPORT_ASSET_ID \o "_tile_" \o Decimal(i)
         exporting == [text |-> "Exporting tile", unit |-> tileName(i)]
     IN  IF exportTarget = "Drive"
         THEN /\ log' = Append(log, exporting)
              /\ tasks' = Append(tasks,
                   [kind |-> "toDrive",
                    image |-> Clip(forestAgreementExport, CellsOf(geom)),
                    description |-> descDrive, fileNamePrefix |-> descDrive,
                    region |-> geom, scale |-> TARGET_RESOLUTION, crs |-> crsStr])
         ELSE IF exportTarget = "Asset"
         THEN /\ log' = Append(log, exporting)
              /\ tasks' = Append(tasks,
                   [kind |-> "toAsset",
                    image |-> Clip(forestAgreementExport, CellsOf(geom)),
                    description |-> descAsset, assetId |-> assetId,
                    region |-> geom, scale |-> TARGET_RESOLUTION, crs |-> crsStr])
         ELSE /\ log' = log \o <<exporting,
                                 [text |-> "Unknown EXPORT_TARGET setting",
                                  unit |-> tileName(i)]>>
              /\ tasks' = tasks
  /\ UNCHANGED <<pc, varsReclass, forestAgreement, varsSieve, varsRank, varsUtm,
                 varsPolygons, varsRegion, exportTarget, tiling, tileFeatures, mapLayers,
                 forestAgreementExport, tileFC, clipped, counts, mask6to9>>

\* The cluster boxes of the export model: two pixels by two, side by side,
\* overlapping by a column, or one north of the other.
ClusterLayouts ==
  LET west == [geometry |-> RectOfBlock(1, 2, 1, 2)]
      east == [geometry |-> RectOfBlock(1, 2, 3, 4)]
      over == [geometry |-> RectOfBlock(1, 2, 2, 3)]
      north == [geometry |-> RectOfBlock(3, 4, 1, 2)]
  IN  {<<west>>, <<west, east>>, <<east, west>>, <<west, over>>, <<west, north>>}

\* The regions drawn by the user of the ROI script, on a block whose tiles
\* are two pixels by two: the whole block, the
\* block without three pixels of its last tile, the block without its last
\* tile, and two pixels in opposite corners.
RoiShapes ==
  {Block(2 * numRows, 2 * numCols),
   Block(2 * numRows, 2 * numCols) \ {<<3, 3>>, <<3, 4>>, <<4, 3>>},
   Block(2 * numRows, 2 * numCols) \ ((3..4) \X (3..4)),
   {<<1, 1>>, <<2 * numRows, 2 * numCols>>}}

\* The agreement scores of a scene: the same score everywhere, or one pixel
\* of full agreement among pixels of agreement 6.
Scenes(region) ==
  {[q \in region |-> score] : score \in 0..D}
    \cup {[q \in region |->
             IF q = (CHOOSE m \in region : \A n \in region :
                       m[1] < n[1] \/ (m[1] = n[1] /\ m[2] <= n[2]))
             THEN D ELSE 6]}

\* The nine masks of a scene: at each pixel of the region the first datasets
\* of the list, as many as the score, see forest; outside the region every
\* dataset is masked and its mask is 0.
MasksOf(region, scores) ==
  LET grid == UNION {Window(q, Halo) : q \in region}
  IN  [k \in 1..D |->
         reprojectAndResample(
           [q \in grid |->
              IF q \in region THEN Pixel(IF k <= scores[q] THEN 1 ELSE 0, 1)
              ELSE Pixel(0, 1)])]

----------------------------------------------------------------------------
(* Specifications: one per part of the scripts                             *)

RegionNotRun ==
  /\ script = "GEODATA"
  /\ shapefilePath = <<>>
  /\ geodataType = "Polygon"
  /\ asset = <<>>
  /\ inputForClustering = NotComputed
  /\ clusterBoundsFC = NotComputed
  /\ error = ""
  /\ fetched = {}

ExportNotRun ==
  /\ exportTarget = "Drive"
  /\ mapLayers = {}
  /\ forestAgreementExport = NotComputed
  /\ tileFC = NotComputed
  /\ clipped = NotComputed
  /\ counts = NotComputed
  /\ pending = {}
  /\ tasks = <<>>
  /\ log = <<>>
  /\ mask6to9 = NotComputed
  /\ tiling = [numRows |-> numRows, numCols |-> numCols]
  /\ tileFeatures = NotComputed

ReclassNotRun ==
  /\ image = NotComputed
  /\ reclassifiedList = <<>>
  /\ projection = NotComputed
  /\ projections = <<>>

SieveNotComputed ==
  /\ smallPatches = NotComputed
  /\ majorityClass = NotComputed
  /\ forestAgreementFiltered = NotComputed

SieveNotRun ==
  /\ roi = {}
  /\ sieveThresholdPixels = SIEVE_THRESHOLD_PIXELS
  /\ SieveNotComputed

RankNotRun ==
  /\ fc = NotComputed
  /\ ranked = NotComputed

UtmNotRun ==
  /\ centroid = NotComputed
  /\ epsg = ""
  /\ epsgCode = ""

PolygonsNotRun ==
  /\ targetResolution = TARGET_RESOLUTION
  /\ shp_data = <<>>
  /\ shp_with_area = NotComputed
  /\ passed = NotComputed
  /\ stats = NotComputed
  /\ withPercent = NotComputed
  /\ below = NotComputed
  /\ final = NotComputed

\* Parts 5 and 6: reclassification and agreement of any dataset pixel.
InitReclass ==
  /\ pc = "part5"
  /\ ReclassNotRun
  /\ forestAgreement = NotComputed
  /\ SieveNotRun
  /\ RankNotRun
  /\ UtmNotRun
  /\ PolygonsNotRun
  /\ RegionNotRun
  /\ ExportNotRun

NextReclass == ReclassifyNext \/ Combine

SpecReclass == InitReclass /\ [][NextReclass]_vars

\* The sieve filter on any agreement raster, with the script's threshold.
InitSieve ==
  /\ pc = "smallPatches"
  /\ ReclassNotRun
  /\ roi = Block(RoiRows, RoiCols)
  /\ forestAgreement \in AgreementRasters(roi, MaxScore)
  /\ sieveThresholdPixels = SIEVE_THRESHOLD_PIXELS
  /\ SieveNotComputed
  /\ RankNotRun
  /\ UtmNotRun
  /\ PolygonsNotRun
  /\ RegionNotRun
  /\ ExportNotRun

\* The same with any threshold a user may configure, on a block that holds a
\* patch of MaxThreshold pixels.
InitSieveCfg ==
  /\ pc = "smallPatches"
  /\ ReclassNotRun
  /\ roi = Block(CfgRoiRows, CfgRoiCols)
  /\ forestAgreement \in AgreementRasters(roi, CfgMaxScore)
  /\ sieveThresholdPixels \in 1..MaxThreshold
  /\ SieveNotComputed
  /\ RankNotRun
  /\ UtmNotRun
  /\ PolygonsNotRun
  /\ RegionNotRun
  /\ ExportNotRun

NextSieve == SmallPatches \/ MajorityClass \/ Filtered

SpecSieve == InitSieve /\ [][NextSieve]_vars

SpecSieveCfg == InitSieveCfg /\ [][NextSieve]_vars

\* Part 9: the ranking of any table of forest shares.
InitRank ==
  /\ pc = "statsList"
  /\ ReclassNotRun
  /\ forestAgreement = NotComputed
  /\ SieveNotRun
  /\ RankNotRun
  /\ UtmNotRun
  /\ PolygonsNotRun
  /\ RegionNotRun
  /\ ExportNotRun

NextRank == StatsList \/ RankRows

SpecRank == InitRank /\ [][NextRank]_vars

\* Parts 8 and 10: the EPSG code of any centroid.
InitUtm ==
  /\ pc = "epsgCode"
  /\ ReclassNotRun
  /\ forestAgreement = NotComputed
  /\ SieveNotRun
  /\ RankNotRun
  /\ centroid \in [lon : Longitudes, lat : Latitudes]
  /\ epsg = ""
  /\ epsgCode = ""
  /\ PolygonsNotRun
  /\ RegionNotRun
  /\ ExportNotRun

NextUtm == EpsgCode \/ GetUTMEPSG

SpecUtm == InitUtm /\ [][NextUtm]_vars

\* The analysis polygons: one to MaxPolygons features of any drawn area.
PolygonCollections ==
  UNION {[1..n -> AreasM2] : n \in 1..MaxPolygons}

\* Part 10: the per-polygon table of any polygons, at any resolution.
InitPolygons ==
  /\ pc = "shp_with_area"
  /\ ReclassNotRun
  /\ forestAgreement = NotComputed
  /\ SieveNotRun
  /\ RankNotRun
  /\ UtmNotRun
  /\ targetResolution \in Resolutions
  /\ \E areas \in PolygonCollections :
       shp_data = [i \in 1..Len(areas) |-> [id |-> i, area |-> areas[i]]]
  /\ shp_with_area = NotComputed
  /\ passed = NotComputed
  /\ stats = NotComputed
  /\ withPercent = NotComputed
  /\ below = NotComputed
  /\ final = NotComputed
  /\ RegionNotRun
  /\ ExportNotRun

NextPolygons == ShpWithArea \/ Passed \/ Stats \/ WithPercent \/ Below \/ Final

SpecPolygons == InitPolygons /\ [][NextPolygons]_vars

\* Part 1 of either script, up to the loading of the datasets: any settings
\* and any asset (GEODATA; one plot stands for what a path that still holds
\* the placeholder may name), a roi defined or not (ROI).
InitRegion ==
  /\ pc = "part1"
  /\ ReclassNotRun
  /\ forestAgreement = NotComputed
  /\ sieveThresholdPixels = SIEVE_THRESHOLD_PIXELS
  /\ SieveNotComputed
  /\ RankNotRun
  /\ UtmNotRun
  /\ PolygonsNotRun
  /\ script \in {"GEODATA", "ROI"}
  /\ IF script = "GEODATA"
     THEN /\ roi = {}
          /\ shapefilePath \in ShapefilePaths
          /\ geodataType \in GeodataTypes
          /\ IF \E i \in 1..Len(shapefilePath) : shapefilePath[i] = "your_geodata_here"
             THEN asset = AssetOf(<<Geometry("Polygon", <<0, 0>>)>>)
             ELSE \E n \in 1..MaxFeatures :
                    \E geoms \in [1..n -> AssetGeometries] : asset = AssetOf(geoms)
     ELSE /\ roi \in {{}, Block(1, 1)}
          /\ shapefilePath = <<>>
          /\ geodataType = "Polygon"
          /\ asset = <<>>
  /\ inputForClustering = NotComputed
  /\ clusterBoundsFC = NotComputed
  /\ error = ""
  /\ fetched = {}
  /\ ExportNotRun

NextRegion ==
  \/ CheckPlaceholder
  \/ LoadShapefile
  \/ InputForClustering
  \/ ClusterBounds
  \/ RoiOfClusters
  \/ RoiCheck
  \/ LoadDatasets

SpecRegion == InitRegion /\ [][NextRegion]_vars

\* Parts 6 to 8 (and line 580 of Part 10) of either script on a scene whose
\* nine masks are known: any cluster layout (GEODATA) or region (ROI), any
\* EXPORT_TARGET, callbacks in any order.
InitExport ==
  /\ pc = "part6"
  /\ script \in {"GEODATA", "ROI"}
  /\ exportTarget \in ExportTargets
  /\ IF script = "GEODATA"
     THEN /\ clusterBoundsFC \in ClusterLayouts
          /\ roi = UNION {CellsOf(clusterBoundsFC[n].geometry) :
                            n \in 1..Len(clusterBoundsFC)}
     ELSE /\ clusterBoundsFC = NotComputed
          /\ roi \in RoiShapes
  /\ image = NotComputed
  /\ reclassifiedList \in {MasksOf(roi, scores) : scores \in Scenes(roi)}
  /\ projection = NotComputed
  /\ projections = [k \in 1..D |-> reproject(NotComputed, "EPSG:4326", TARGET_RESOLUTION)]
  /\ forestAgreement = NotComputed
  /\ sieveThresholdPixels = SIEVE_THRESHOLD_PIXELS
  /\ SieveNotComputed
  /\ RankNotRun
  /\ UtmNotRun
  /\ PolygonsNotRun
  /\ shapefilePath = <<>>
  /\ geodataType = "Polygon"
  /\ asset = <<>>
  /\ inputForClustering = NotComputed
  /\ error = ""
  /\ fetched = {DatasetOrder[k] : k \in 1..D}
  /\ mapLayers = {}
  /\ forestAgreementExport = NotComputed
  /\ tileFC = NotComputed
  /\ clipped = NotComputed
  /\ counts = NotComputed
  /\ pending = {}
  /\ tasks = <<>>
  /\ log = <<>>
  /\ mask6to9 = NotComputed
  /\ tiling = [numRows |-> numRows, numCols |-> numCols]
  /\ tileFeatures = NotComputed

NextExport ==
  \/ Combine
  \/ SmallPatches
  \/ MajorityClass
  \/ Filtered
  \/ Visualise
  \/ VisualiseCallback
  \/ TileFeatures
  \/ ExportRequest
  \/ Mask6to9
  \/ ClustersCallback
  \/ \E clusterIndex \in 0..(Len(clusterBoundsFC) - 1) : CountCallback(clusterIndex)
  \/ \E clusterIndex \in 0..(Len(clusterBoundsFC) - 1) : EpsgCallback(clusterIndex)
  \/ TileListCallback
  \/ \E i \in 0..(tiling.numRows * tiling.numCols - 1) : TileCrsCallback(i)

SpecExport == InitExport /\ [][NextExport]_vars

\* The same, every requested callback of the cluster export being called in
\* the end.
SpecExportFair ==
  /\ InitExport
  /\ [][NextExport]_vars
  /\ WF_vars(\E clusterIndex \in 0..(Len(clusterBoundsFC) - 1) : CountCallback(clusterIndex))
  /\ WF_vars(\E clusterIndex \in 0..(Len(clusterBoundsFC) - 1) : EpsgCallback(clusterIndex))

\* Part 8 of the ROI script up to the tiles: any rectangle of pixels as the
\* bounds of roi, any numRows and numCols up to MaxGridSize.
InitTiles ==
  /\ pc = "part8"
  /\ ReclassNotRun
  /\ forestAgreement = NotComputed
  /\ \E r1, r2 \in 1..ExportRows, c1, c2 \in 1..ExportCols :
       /\ r1 <= r2
       /\ c1 <= c2
       /\ roi = (r1..r2) \X (c1..c2)
  /\ sieveThresholdPixels = SIEVE_THRESHOLD_PIXELS
  /\ SieveNotComputed
  /\ RankNotRun
  /\ UtmNotRun
  /\ PolygonsNotRun
  /\ script = "ROI"
  /\ shapefilePath = <<>>
  /\ geodataType = "Polygon"
  /\ asset = <<>>
  /\ inputForClustering = NotComputed
  /\ clusterBoundsFC = NotComputed
  /\ error = ""
  /\ fetched = {}
  /\ exportTarget = "Drive"
  /\ mapLayers = {}
  /\ forestAgreementExport = NotComputed
  /\ tileFC = NotComputed
  /\ clipped = NotComputed
  /\ counts = NotComputed
  /\ pending = {}
  /\ tasks = <<>>
  /\ log = <<>>
  /\ mask6to9 = NotComputed
  /\ tiling \in [numRows : 1..MaxGridSize, numCols : 1..MaxGridSize]
  /\ tileFeatures = NotComputed

NextTiles == TileFeatures

SpecTiles == InitTiles /\ [][NextTiles]_vars

----------------------------------------------------------------------------
(* Properties                                                              *)

\* The mask built for the dataset last reclassified, at pixel px.
LastMask(px) == reclassifiedList[Len(reclassifiedList)][px]

LastClasses == forestClasses(DatasetOrder[Len(reclassifiedList)])

\* C1: the mask reclassifyImage returns is unmasked and 0 or 1 at every pixel,
\* and is 1 exactly where the input pixel is valid and its value is one of the
\* dataset's class codes; a nodata input pixel gives 0.  Checked for each of
\* the nine catalog entries as it is reclassified.
C1_ReclassifyBinary ==
  Len(reclassifiedList) > 0 =>
    \A px \in SamplePixels :
      /\ LastMask(px).mask = 1
      /\ LastMask(px).value \in {0, 1}
      /\ LastMask(px).value = 1 <=>
           /\ image[px].mask = 1
           /\ \E i \in DOMAIN LastClasses : LastClasses[i] = image[px].value

\* C1 witness: the canopy-height mask is 1 and a nodata pixel of the last
\* dataset has been reclassified to 0.
C1_Witness ==
  /\ Len(reclassifiedList) = D
  /\ image[<<1, 1>>] = Masked
  /\ LastMask(<<1, 1>>) = Pixel(0, 1)
  /\ reclassifiedList[8][<<1, 1>>].value = 1

ForestVotes(px) == {k \in 1..D : reclassifiedList[k][px].value = 1}

ScoreAt(q) == At(forestAgreement, q).value

Adjacent8(a, b) ==
  /\ a # b
  /\ a[1] - b[1] \in (0 - 1)..1
  /\ a[2] - b[2] \in (0 - 1)..1

\* The 8-connected patch of equal score around p: the closure of {p} under
\* stepping to an adjacent pixel of the same score.
RECURSIVE PatchClosure(_)
PatchClosure(S) ==
  LET T == S \cup {q \in Grid : \E a \in S : Adjacent8(a, q) /\ ScoreAt(a) = ScoreAt(q)}
  IN  IF T = S THEN S ELSE PatchClosure(T)

PatchOf(p) == PatchClosure({p})

NoSmallPatch ==
  \A p \in Grid : Cardinality(PatchOf(p)) >= sieveThresholdPixels

\* C3 (as claimed): when every 8-connected patch of equal score has at least
\* SIEVE_THRESHOLD_PIXELS pixels, the filtered raster equals the raw one on roi.
C3_NoSmallPatchIdentity ==
  pc = "part7" /\ forestAgreementFiltered # NotComputed /\ NoSmallPatch =>
    \A p \in roi : forestAgreementFiltered[p] = forestAgreement[p]

\* The number of pixels of score v in the (2r+1) x (2r+1) window around p,
\* centre included, on the raw agreement raster.
WindowCount(p, v) ==
  Cardinality({q \in ((p[1] - AGREEMENT_RADIUS)..(p[1] + AGREEMENT_RADIUS))
                     \X ((p[2] - AGREEMENT_RADIUS)..(p[2] + AGREEMENT_RADIUS)) :
                 ScoreAt(q) = v})

IsWindowMode(p, v) ==
  /\ WindowCount(p, v) > 0
  /\ \A w \in 0..D : WindowCount(p, w) <= WindowCount(p, v)

\* C4: a pixel marked small takes a modal value of its window on the
\* unfiltered raster; a pixel not marked small keeps its score.
C4_SmallTakeWindowMode ==
  pc = "part7" /\ forestAgreementFiltered # NotComputed =>
    \A p \in roi :
      /\ forestAgreementFiltered[p].mask = 1
      /\ IF smallPatches[p].value = 1
         THEN IsWindowMode(p, forestAgreementFiltered[p].value)
         ELSE forestAgreementFiltered[p] = forestAgreement[p]

\* C4 witness: one pixel was marked small and changed score, another was not
\* marked, and a marked pixel had two tied modes.
C4_Witness ==
  /\ pc = "part7"
  /\ forestAgreementFiltered # NotComputed
  /\ \E p \in roi : /\ smallPatches[p].value = 1
                    /\ forestAgreementFiltered[p] # forestAgreement[p]
  /\ \E p \in roi : smallPatches[p].value = 0
  /\ \E p \in roi : /\ smallPatches[p].value = 1
                    /\ \E v, w \in 0..D : /\ v # w
                                          /\ IsWindowMode(p, v)
                                          /\ IsWindowMode(p, w)

\* C5 (as claimed): for every configured threshold, a pixel is marked small
\* exactly when its 8-connected patch of equal score has fewer pixels than
\* the threshold.
C5_SmallIffBelowThreshold ==
  smallPatches # NotComputed =>
    \A p \in roi :
      smallPatches[p].value = 1 <=> Cardinality(PatchOf(p)) < sieveThresholdPixels

\* C6: in the extent-ranking table, the Rank of a row is 1 plus the number of
\* dataset rows with a strictly greater Forest_pct_total, so rows of equal
\* Forest_pct_total share a rank; percentages 50, 50, 30 rank 1, 1, 3.
C6_RankCountsStrictlyGreater ==
  /\ ranked # NotComputed =>
       /\ Len(ranked) = Len(forestLayers)
       /\ \A k \in 1..Len(forestLayers) : \E i \in 1..Len(ranked) :
            ranked[i].Layer = forestLayers[k]
       /\ \A i \in 1..Len(ranked) :
            /\ ranked[i].Rank =
                 1 + Cardinality({j \in 1..Len(ranked) :
                        ranked[j].Forest_pct_total > ranked[i].Forest_pct_total})
            /\ \A j \in 1..Len(ranked) :
                 ranked[j].Forest_pct_total = ranked[i].Forest_pct_total
                   => ranked[j].Rank = ranked[i].Rank
  /\ \A tieOrder \in TieOrders :
       LET t == Ranked(StatsTable(<<"a", "b", "c">>, <<50, 50, 30>>), tieOrder)
       IN  \A i \in 1..3 : t[i].Rank = IF t[i].Forest_pct_total = 50 THEN 1 ELSE 3

\* C6 witness: two datasets tie at 50 % with rank 1 and the next, at 30 %,
\* has rank 3.
C6_Witness ==
  /\ ranked # NotComputed
  /\ ranked[1].Forest_pct_total = 50 /\ ranked[1].Rank = 1
  /\ ranked[2].Forest_pct_total = 50 /\ ranked[2].Rank = 1
  /\ ranked[3].Forest_pct_total = 30 /\ ranked[3].Rank = 3

\* The zone of a longitude, characterised without division: the z with
\* 6 (z - 1) <= lon + 180 < 6 z.
ZoneOf(lon) ==
  CHOOSE z \in 0..62 :
    /\ 6 * CoordScale * (z - 1) <= lon + 180 * CoordScale
    /\ lon + 180 * CoordScale < 6 * CoordScale * z

TwoDigits(z) == DigitChar[(z \div 10) + 1] \o DigitChar[(z % 10) + 1]

EpsgOfClaim(c) ==
  IF c.lat > 0 THEN "EPSG:326" \o TwoDigits(ZoneOf(c.lon))
  ELSE "EPSG:327" \o TwoDigits(ZoneOf(c.lon))

\* C7: getUTMEPSG returns 'EPSG:326' and the two-digit zone
\* floor((lon + 180) / 6) + 1 when lat > 0, and 'EPSG:327' and that zone
\* otherwise, lat = 0 included; (11, 52) gives EPSG:32632 and (11, -5) gives
\* EPSG:32732; epsgCode of Part 10 is the same string for the same centroid.
C7_UtmEpsgString ==
  /\ epsg # "" => epsg = EpsgOfClaim(centroid)
  /\ epsgCode # "" => epsgCode = EpsgOfClaim(centroid)
  /\ (epsg # "" /\ epsgCode # "") => epsg = epsgCode
  /\ (epsg # "" /\ centroid = [lon |-> 11 * CoordScale, lat |-> 52 * CoordScale])
       => epsg = "EPSG:32632"
  /\ (epsg # "" /\ centroid = [lon |-> 11 * CoordScale, lat |-> (0 - 5) * CoordScale])
       => epsg = "EPSG:32732"

C7_Witness ==
  /\ pc = "done"
  /\ centroid = [lon |-> 11 * CoordScale, lat |-> 0]
  /\ epsg = "EPSG:32732"
  /\ epsgCode = "EPSG:32732"

ValidUtmEpsg ==
  {"EPSG:326" \o TwoDigits(z) : z \in 1..60} \cup
  {"EPSG:327" \o TwoDigits(z) : z \in 1..60}

\* C8: for every centroid longitude in [-180, 180], both ends included, the
\* zone of the EPSG string lies in 1..60, for getUTMEPSG and for epsgCode.
C8_ZoneInRange ==
  /\ epsg # "" => epsg \in ValidUtmEpsg
  /\ epsgCode # "" => epsgCode \in ValidUtmEpsg

\* The condition as the claim words it: area_ha < 0.5, or area_m2 / R^2 below
\* 5000 / R^2, both fractions compared by cross-multiplication.
FlaggedByClaim(area, resolution) ==
  \/ area * 10 < 5 * 10000
  \/ area * (resolution * resolution) < 5000 * (resolution * resolution)

\* C9: addAreaAndCheck sets area_check to 'below 0.5ha' iff area_ha < 0.5 or
\* the pixel count of the area is below that of 0.5 ha, and to '' otherwise;
\* 0.49 ha is flagged and 0.51 ha is not, at every target resolution.
C9_AreaCheckIffBelowHalfHectare ==
  pc # "shp_with_area" =>
    /\ Len(shp_with_area) = Len(shp_data)
    /\ \A i \in 1..Len(shp_data) :
         LET area == shp_data[i].area
             f == shp_with_area[i]
         IN  /\ f.id = shp_data[i].id
             /\ f.area_check = IF FlaggedByClaim(area, targetResolution)
                               THEN "below 0.5ha" ELSE ""
             /\ area = 4900 => f.area_check = "below 0.5ha"
             /\ area = 5100 => f.area_check = ""

C9_Witness ==
  /\ pc # "shp_with_area"
  /\ targetResolution = 100
  /\ \E i, j \in 1..Len(shp_with_area) :
       /\ shp_with_area[i].area = 4900
       /\ shp_with_area[i].area_check = "below 0.5ha"
       /\ shp_with_area[j].area = 5100
       /\ shp_with_area[j].area_check = ""

Ids(coll) == {coll[i].id : i \in 1..Len(coll)}

\* C10: final holds every input polygon exactly once; a flagged polygon has
\* forestagree null and was never handed to reduceRegions; an unflagged one
\* has a numeric forestagree.
C10_FinalHoldsEveryPolygonOnce ==
  pc = "done" =>
    /\ \A i \in 1..Len(shp_data) :
         Cardinality({j \in 1..Len(final) : final[j].id = shp_data[i].id}) = 1
    /\ Len(final) = Len(shp_data)
    /\ \A j \in 1..Len(final) :
         IF final[j].area_check = "below 0.5ha"
         THEN /\ final[j].forestagree.kind = "null"
              /\ final[j].id \notin Ids(passed)
              /\ final[j].id \notin Ids(stats)
         ELSE /\ final[j].forestagree.kind = "number"
              /\ final[j].id \in Ids(stats)

C10_Witness ==
  /\ pc = "done"
  /\ Len(final) = 2
  /\ \E i, j \in 1..Len(final) :
       /\ final[i].area_check = "below 0.5ha"
       /\ final[i].forestagree.kind = "null"
       /\ final[j].area_check = ""
       /\ final[j].forestagree.kind = "number"
       /\ final[j].forestagree.num > 0

----------------------------------------------------------------------------
(* Properties of PART 1                                                     *)

ClustersComputed == pc \in {"roi", "part4", "part5"}

\* The features i and j lie less than limit units apart, edge to edge
\* (orEqual: or exactly limit apart).
NearerThan(i, j, limit, orEqual) ==
  LET a == inputForClustering[i].geometry
      b == inputForClustering[j].geometry
      d2 == (a.x - b.x) * (a.x - b.x) + (a.y - b.y) * (a.y - b.y)
      reach == (a.r + b.r + limit) * (a.r + b.r + limit)
  IN  d2 < reach \/ (orEqual /\ d2 = reach)

\* The features a chain of links leads to from those of S.
RECURSIVE ChainFrom(_, _, _)
ChainFrom(S, limit, orEqual) ==
  LET more == {j \in 1..Len(inputForClustering) :
                 \E i \in S : NearerThan(i, j, limit, orEqual)} \ S
  IN  IF more = {} THEN S ELSE ChainFrom(S \cup more, limit, orEqual)

\* The connected components of the features buffered by the join distance:
\* two buffers of d metres overlap when the features are less than 2 d apart.
ComponentsOfBuffered ==
  {ChainFrom({i}, 2 * (JoinBufferM \div UnitM), FALSE) : i \in 1..Len(inputForClustering)}

\* The rectangle around the features of c, each buffered by the join distance.
RectangleAround(c) ==
  LET d == JoinBufferM \div UnitM
      g(i) == inputForClustering[i].geometry
  IN  [xmin |-> MinOf({g(i).x - g(i).r - d : i \in c}),
       xmax |-> MaxOf({g(i).x + g(i).r + d : i \in c}),
       ymin |-> MinOf({g(i).y - g(i).r - d : i \in c}),
       ymax |-> MaxOf({g(i).y + g(i).r + d : i \in c})]

\* The asset holds exactly two points, apartKm kilometres apart west to east.
TwoPointsApart(apartKm) ==
  /\ geodataType = "Point"
  /\ Len(asset) = 2
  /\ asset[1].geometry = Geometry("Point", <<0, 0>>)
  /\ asset[2].geometry = Geometry("Point", <<apartKm, 0>>)

\* C11: clusterBoundingBoxes yields exactly one cluster for each connected
\* component of the union of the input geometries buffered by 10 km, and each
\* cluster is the bounding rectangle of its component; two points 50 km apart
\* give two clusters, two points 5 km apart give one.
C11_OneClusterPerComponent ==
  ClustersComputed =>
    /\ Len(clusterBoundsFC) = Cardinality(ComponentsOfBuffered)
    /\ \A c \in ComponentsOfBuffered :
         \E k \in 1..Len(clusterBoundsFC) :
           /\ clusterBoundsFC[k].geometry = RectangleAround(c)
           /\ \A l \in 1..Len(clusterBoundsFC) :
                clusterBoundsFC[l].geometry = RectangleAround(c) => l = k
    /\ TwoPointsApart(50) => Len(clusterBoundsFC) = 2
    /\ TwoPointsApart(5) => Len(clusterBoundsFC) = 1

\* Three features, two of them joined in one cluster and the third in its own.
C11_Witness ==
  /\ ClustersComputed
  /\ Len(inputForClustering) = 3
  /\ Len(clusterBoundsFC) = 2
  /\ \E c \in ComponentsOfBuffered : Cardinality(c) = 2

\* The feature i lies, with its join buffer, in the box of cluster k.
InCluster(i, k) ==
  LET box == clusterBoundsFC[k].geometry
      own == RectangleAround({i})
  IN  /\ box.xmin <= own.xmin /\ own.xmax <= box.xmax
      /\ box.ymin <= own.ymin /\ own.ymax <= box.ymax

SameCluster(i, j) == \E k \in 1..Len(clusterBoundsFC) : InCluster(i, k) /\ InCluster(j, k)

\* C12 (as claimed): two geometries are in the same cluster only if a chain
\* of geometries links them in which each consecutive pair lies within 10 km.
C12_SameClusterOnlyIfChainWithin10km ==
  ClustersComputed =>
    \A i, j \in 1..Len(inputForClustering) :
      SameCluster(i, j) => j \in ChainFrom({i}, JoinBufferM \div UnitM, TRUE)

\* C12 (amended): two geometries are in the same cluster exactly if a chain
\* of geometries links them in which each consecutive pair lies less than
\* 20 km apart, twice the join buffer of 10 km.
C12_SameClusterIffChainWithinTwiceBuffer ==
  ClustersComputed =>
    \A i, j \in 1..Len(inputForClustering) :
      SameCluster(i, j) <=> j \in ChainFrom({i}, 2 * (JoinBufferM \div UnitM), FALSE)

\* Two features more than 10 km and less than 20 km apart, alone in one cluster.
C12_Witness ==
  /\ ClustersComputed
  /\ Len(inputForClustering) = 2
  /\ Len(clusterBoundsFC) = 1
  /\ ~NearerThan(1, 2, JoinBufferM \div UnitM, TRUE)

\* The interiors of two boxes meet.
BoxesMeet(a, b) ==
  /\ a.xmin < b.xmax /\ b.xmin < a.xmax
  /\ a.ymin < b.ymax /\ b.ymin < a.ymax

\* C13: the cluster bounding boxes of clusterBoundsFC are pairwise disjoint,
\* so that no pixel is exported in two cluster rasters.
C13_ClusterBoxesDisjoint ==
  ClustersComputed =>
    \A k, l \in 1..Len(clusterBoundsFC) :
      k # l => ~BoxesMeet(clusterBoundsFC[k].geometry, clusterBoundsFC[l].geometry)

\* C14 (as claimed): when GEODATA_TYPE differs from the geometry type of any
\* feature of the asset, not only the first, the run fails with the mismatch
\* error before any buffering or clustering.
C14_AnyFeatureMismatchFails ==
  (/\ script = "GEODATA"
   /\ \E i \in 1..Len(asset) : asset[i].geometry.type # geodataType)
  => /\ inputForClustering = NotComputed
     /\ clusterBoundsFC = NotComputed
     /\ pc \in {"part1", "shp_data", "failed"}

\* The settings hold a configuration error: the placeholder is still in
\* SHAPEFILE_PATH or GEODATA_TYPE is no supported type (GEODATA script), no
\* roi is defined (ROI script).
ConfigurationError ==
  IF script = "GEODATA"
  THEN \/ \E i \in 1..Len(shapefilePath) : shapefilePath[i] = "your_geodata_here"
       \/ geodataType \notin {"Point", "Polygon"}
  ELSE roi = {}

\* C15: a configuration error is fatal and is raised before any dataset
\* raster is fetched and before any export or statistics step.
C15_ConfigurationErrorBeforeFetch ==
  ConfigurationError =>
    /\ fetched = {}
    /\ reclassifiedList = NotComputed
    /\ forestAgreement = NotComputed
    /\ forestAgreementFiltered = NotComputed
    /\ ranked = NotComputed
    /\ final = NotComputed
    /\ pc \in {"part1", "shp_data", "inputForClustering", "failed"}
    /\ pc = "failed" => error # ""

\* The run of a valid path and an asset of lines, declared as lines, has
\* stopped at the unsupported GEODATA_TYPE.
C15_Witness ==
  /\ pc = "failed"
  /\ script = "GEODATA"
  /\ geodataType = "LineString"
  /\ shp_data # NotComputed
  /\ error = "GEODATA_TYPE must be either \"Point\" or \"Polygon\""

----------------------------------------------------------------------------
(* Properties of PART 8                                                     *)

\* The middle of a rectangle.
MiddleOf(rect) ==
  [lon |-> (rect.xmin + rect.xmax) \div 2, lat |-> (rect.ymin + rect.ymax) \div 2]

\* The export of cluster n (counted from 1) has run to its end.
ClusterSettled(n) ==
  /\ counts # NotComputed
  /\ counts[n].kind # "pending"
  /\ \A cb \in pending : cb.i = n - 1 => cb.kind \notin {"count", "epsg"}

\* The tasks submitted with the rectangle as region.
TasksOfRegion(rect) == {t \in 1..Len(tasks) : tasks[t].region = rect}

\* C16 (as claimed): in cluster mode, for every cluster: when the valid-pixel
\* count of the clipped raster is zero or not available, no export task is
\* submitted and a skip warning is logged; when it is greater than zero,
\* exactly one export task is submitted, with the cluster's bounding box as
\* region and the UTM CRS of the cluster's own centroid.
C16_OneTaskPerCountedCluster ==
  script = "GEODATA" =>
    \A n \in 1..Len(clusterBoundsFC) :
      ClusterSettled(n) =>
        LET geom == clusterBoundsFC[n].geometry
        IN  IF counts[n].kind = "number" /\ counts[n].num > 0
            THEN /\ Cardinality(TasksOfRegion(geom)) = 1
                 /\ \A t \in TasksOfRegion(geom) : tasks[t].crs = EpsgOfClaim(MiddleOf(geom))
            ELSE /\ TasksOfRegion(geom) = {}
                 /\ \E l \in 1..Len(log) :
                      /\ log[l].text = "Skipping"
                      /\ log[l].unit = "Cluster_" \o Decimal(n)

\* The export of the ROI script has run to its end.
TilesSettled == script = "ROI" /\ pc = "callbacks" /\ pending = {}

\* The tile of column col and row row of the grid over the bounding box of
\* roi, by interpolation between the sides of the box.
TileOfGrid(col, row) ==
  LET west == MinOf({(OriginLon + q[2] - 1) * CoordScale : q \in roi})
      east == MaxOf({(OriginLon + q[2]) * CoordScale : q \in roi})
      south == MinOf({(OriginLat + q[1] - 1) * CoordScale : q \in roi})
      north == MaxOf({(OriginLat + q[1]) * CoordScale : q \in roi})
  IN  [xmin |-> ((numCols - col) * west + col * east) \div numCols,
       xmax |-> ((numCols - col - 1) * west + (col + 1) * east) \div numCols,
       ymin |-> ((numRows - row) * south + row * north) \div numRows,
       ymax |-> ((numRows - row - 1) * south + (row + 1) * north) \div numRows]

TilesOfGrid == {TileOfGrid(col, row) : col \in 0..(numCols - 1), row \in 0..(numRows - 1)}

\* The pixels of roi in the rectangle.
RoiPixelsIn(rect) ==
  {q \in roi :
     /\ rect.xmin <= (OriginLon + q[2] - 1) * CoordScale
     /\ (OriginLon + q[2]) * CoordScale <= rect.xmax
     /\ rect.ymin <= (OriginLat + q[1] - 1) * CoordScale
     /\ (OriginLat + q[1]) * CoordScale <= rect.ymax}

\* The rectangle shares at least a point with a pixel of roi.
MeetsRoi(rect) ==
  \E q \in roi :
    /\ rect.xmin <= (OriginLon + q[2]) * CoordScale
    /\ (OriginLon + q[2] - 1) * CoordScale <= rect.xmax
    /\ rect.ymin <= (OriginLat + q[1]) * CoordScale
    /\ (OriginLat + q[1] - 1) * CoordScale <= rect.ymax

\* The rectangle around a set of pixels.
RectangleOfPixels(pixels) ==
  [xmin |-> MinOf({(OriginLon + q[2] - 1) * CoordScale : q \in pixels}),
   xmax |-> MaxOf({(OriginLon + q[2]) * CoordScale : q \in pixels}),
   ymin |-> MinOf({(OriginLat + q[1] - 1) * CoordScale : q \in pixels}),
   ymax |-> MaxOf({(OriginLat + q[1]) * CoordScale : q \in pixels})]

\* The unmasked pixels of an image.
ValidPixels(img) == {q \in DOMAIN img : img[q].mask = 1}

\* The tasks that export pixels of the tile.
TasksOfTile(tile) ==
  {t \in 1..Len(tasks) :
     /\ ValidPixels(tasks[t].image) = RoiPixelsIn(tile)
     /\ tasks[t].region.xmin >= tile.xmin /\ tasks[t].region.xmax <= tile.xmax
     /\ tasks[t].region.ymin >= tile.ymin /\ tasks[t].region.ymax <= tile.ymax}

CastRasters ==
  (IF clipped = NotComputed THEN {}
   ELSE {[raster |-> clipped[n], pixels |-> RoiPixelsIn(clusterBoundsFC[n].geometry)] :
           n \in 1..Len(clipped)})
  \cup
  (IF forestAgreementExport = NotComputed THEN {}
   ELSE {[raster |-> forestAgreementExport, pixels |-> roi]})
  \cup
  {[raster |-> tasks[t].image, pixels |-> ValidPixels(tasks[t].image)] : t \in 1..Len(tasks)}

C19_ExportsReadFilteredRaster ==
  /\ forestAgreement # NotComputed =>
       \A q \in roi : forestAgreement[q] = Pixel(Cardinality(ForestVotes(q)), 1)
  /\ forestAgreementFiltered # NotComputed =>
       /\ forestAgreement # NotComputed
       /\ \A q \in roi :
            IF smallPatches[q].value = 1
            THEN IsWindowMode(q, forestAgreementFiltered[q].value)
            ELSE forestAgreementFiltered[q] = forestAgreement[q]
  /\ (\/ tasks # <<>> \/ clipped # NotComputed \/ forestAgreementExport # NotComputed
      \/ mask6to9 # NotComputed \/ mapLayers # {})
       => forestAgreementFiltered # NotComputed
  /\ \A t \in 1..Len(tasks) :
       /\ ValidPixels(tasks[t].image) = RoiPixelsIn(tasks[t].region)
       /\ \A q \in ValidPixels(tasks[t].image) :
            tasks[t].image[q].value = forestAgreementFiltered[q].value
  /\ mask6to9 # NotComputed =>
       \A q \in roi :
         mask6to9[q].value = 1 <=> forestAgreementFiltered[q].value \in 6..9
  /\ \A layer \in mapLayers :
       \A q \in ValidPixels(layer.image) \cap roi :
         layer.image[q] \in {forestAgreement[q], forestAgreementFiltered[q]}

\* A cluster has been exported and the mask of agreement 6..9 taken on a
\* scene where the sieve changed a score of 6 or more, with the raw layer on
\* the map.
C19_Witness ==
  /\ pc = "callbacks"
  /\ script = "GEODATA"
  /\ pending = {}
  /\ tasks # <<>>
  /\ mask6to9 # NotComputed
  /\ \E layer \in mapLayers : layer.name = "Forest Agreement (Raw) - Cluster 1"
  /\ \E q \in roi : /\ forestAgreement[q].value >= 6
                    /\ forestAgreementFiltered[q].value < 6

----------------------------------------------------------------------------
(* Properties of the alignment of PART 5                                    *)

\* Two grids are aligned: same CRS, same pixel size, same origin.
Aligned(a, b) == a.crs = b.crs /\ a.scale = b.scale /\ a.origin = b.origin

----------------------------------------------------------------------------
(* Properties of the filtered raster of PART 6                              *)

\* The score of the filtered raster at q; around roi the score of the
\* surroundings, which no patch there being small the filter leaves alone.
FilteredScoreAt(q) ==
  IF q \in roi THEN forestAgreementFiltered[q].value ELSE OutsideRoi.value

\* The 8-connected patch of equal score around p on the filtered raster.
RECURSIVE FilteredPatchClosure(_)
FilteredPatchClosure(S) ==
  LET T == S \cup {q \in Grid : \E a \in S : /\ Adjacent8(a, q)
                                            /\ FilteredScoreAt(a) = FilteredScoreAt(q)}
  IN  IF T = S THEN S ELSE FilteredPatchClosure(T)

FilteredPatchOf(p) == FilteredPatchClosure({p})

\* C21 (as claimed): the filtered raster holds no 8-connected patch of equal
\* score with fewer pixels than SIEVE_THRESHOLD_PIXELS.
C21_NoSmallPatchAfterSieve ==
  pc = "part7" /\ forestAgreementFiltered # NotComputed =>
    \A p \in roi : Cardinality(FilteredPatchOf(p)) >= sieveThresholdPixels

----------------------------------------------------------------------------
(* Properties of the callbacks of PART 8                                    *)

\* The description the claim gives the task of cluster k (counted from 0).
ClusterTaskNames(k) ==
  {EXPORT_DESCRIPTION \o "_Cluster_" \o Decimal(k + 1) \o suffix :
     suffix \in {"_Drive", "_Asset"}}

\* The description the claim gives the task of tile i (counted from 0).
TileTaskNames(i) ==
  {EXPORT_DESCRIPTION \o "_tile_" \o Decimal(i) \o suffix :
     suffix \in {"_Drive", "_Asset"}}

\* Task t is the export of cluster k: its region, clipped image and CRS.
CarriesCluster(t, k) ==
  LET geom == clusterBoundsFC[k + 1].geometry
  IN  /\ t.region = geom
      /\ t.image = toInt16(Clip(forestAgreementFiltered, CellsOf(geom)))
      /\ t.crs = EpsgOfClaim(MiddleOf(geom))

\* Task t is the export of tile i: its region and CRS.
CarriesTile(t, i) ==
  LET geom == tileFC[i + 1].geometry
  IN  /\ t.region = geom
      /\ t.crs = EpsgOfClaim(MiddleOf(geom))

\* The clusters (counted from 0) whose pixel count came back greater than 0.
CountedClusters ==
  {k \in 0..(Len(clusterBoundsFC) - 1) :
     counts[k + 1].kind = "number" /\ counts[k + 1].num > 0}

\* Every callback of the export has run.
ExportSettled ==
  /\ pc = "callbacks"
  /\ \A cb \in pending : cb.kind = "visualise"

\* C22: whatever the order in which the callbacks complete, a task named
\* after cluster k+1 carries the region, clipped image and CRS of cluster k,
\* a task named after tile i carries the region and CRS of tile i, no two
\* tasks share a description or an asset id, and once every callback has run
\* the tasks are one per counted cluster, or one per tile, for the targets
\* 'Drive' and 'Asset' (none for another target).
C22_TasksIndependentOfCallbackOrder ==
  /\ \A t \in 1..Len(tasks) :
       IF script = "GEODATA"
       THEN \E k \in CountedClusters :
              /\ tasks[t].description \in ClusterTaskNames(k)
              /\ CarriesCluster(tasks[t], k)
       ELSE \E i \in 0..(Len(tileFC) - 1) :
              /\ tasks[t].description \in TileTaskNames(i)
              /\ CarriesTile(tasks[t], i)
  /\ \A s, t \in 1..Len(tasks) :
       s # t =>
         /\ tasks[s].description # tasks[t].description
         /\ tasks[s].kind = "toAsset" /\ tasks[t].kind = "toAsset" =>
              tasks[s].assetId # tasks[t].assetId
  /\ ExportSettled =>
       LET units == IF exportTarget \notin {"Drive", "Asset"} THEN {}
                    ELSE IF script = "GEODATA" THEN CountedClusters
                    ELSE 0..(Len(tileFC) - 1)
       IN  /\ Len(tasks) = Cardinality(units)
           /\ \A u \in units :
                \E t \in 1..Len(tasks) :
                  tasks[t].description \in
                    (IF script = "GEODATA" THEN ClusterTaskNames(u) ELSE TileTaskNames(u))

\* The callbacks of two clusters completed against the order of the list:
\* the first task submitted is the one of the second cluster.
C22_Witness ==
  /\ script = "GEODATA"
  /\ ExportSettled
  /\ Len(tasks) = 2
  /\ tasks[1].description \in ClusterTaskNames(1)
  /\ tasks[2].description \in ClusterTaskNames(0)
  /\ tasks[1].region # tasks[2].region

\* The same in the ROI script: the first task submitted is the one of the
\* last tile.
TilesOutOfOrder ==
  /\ script = "ROI"
  /\ ExportSettled
  /\ Len(tasks) = Len(tileFC)
  /\ Len(tasks) > 1
  /\ tasks[1].description \in TileTaskNames(Len(tileFC) - 1)

\* Cluster n (counted from 1) has been exported: a task holds its box.
ClusterExported(n) == TasksOfRegion(clusterBoundsFC[n].geometry) # {}

\* Cluster n (counted from 1) has been skipped with the warning of line 425.
ClusterSkipped(n) ==
  \E l \in 1..Len(log) :
    log[l].text = "Skipping" /\ log[l].unit = "Cluster_" \o Decimal(n)

\* Every cluster has exactly one outcome, the one its own pixel count calls
\* for, whatever happened to the other clusters: exported with its own
\* region, image and CRS when the count is greater than 0, skipped otherwise.
EveryClusterHasItsOutcome ==
  \A n \in 1..Len(clusterBoundsFC) :
    /\ ClusterExported(n) # ClusterSkipped(n)
    /\ counts[n].kind # "pending"
    /\ IF n - 1 \in CountedClusters
       THEN /\ Cardinality(TasksOfRegion(clusterBoundsFC[n].geometry)) = 1
            /\ \A t \in TasksOfRegion(clusterBoundsFC[n].geometry) :
                 CarriesCluster(tasks[t], n - 1)
       ELSE ClusterSkipped(n)

\* The callback of clusterBoundsFC.evaluate has run.
ClusterListEvaluated == script = "GEODATA" /\ counts # NotComputed

\* C23 (as claimed): once the cluster list has been evaluated, and every
\* pending callback eventually fires, every cluster eventually reaches
\* exactly one outcome, exported or skipped, and a skipped cluster changes
\* nothing in the export of another.
C23_EveryClusterExportedOrSkipped == ClusterListEvaluated ~> EveryClusterHasItsOutcome

----------------------------------------------------------------------------
(* Properties of the tiles of PART 8 of the ROI script                      *)

\* The bounding box of roi in the units of the tiles: longitudes in units of
\* 1/(CoordScale * numCols) degree, latitudes of 1/(CoordScale * numRows).
BoundingBoxOfTiles ==
  LET extent == BoundsOfCells(roi)
  IN  Rectangle(extent.xmin * tiling.numCols, extent.ymin * tiling.numRows,
                extent.xmax * tiling.numCols, extent.ymax * tiling.numRows)

\* The interiors of two rectangles share no point.
InteriorsDisjoint(a, b) ==
  \/ a.xmax <= b.xmin
  \/ b.xmax <= a.xmin
  \/ a.ymax <= b.ymin
  \/ b.ymax <= a.ymin

\* Rectangle a lies in rectangle b.
Within(a, b) ==
  /\ b.xmin <= a.xmin /\ a.xmax <= b.xmax
  /\ b.ymin <= a.ymin /\ a.ymax <= b.ymax

\* The pairs of neighbouring values of a set of numbers.
Consecutive(S) ==
  {p \in S \X S : p[1] < p[2] /\ ~\E s \in S : p[1] < s /\ s < p[2]}

\* The rectangles cover the box: cut the box along every edge of a rectangle;
\* each piece lies in one of the rectangles.
Covers(rects, box) ==
  LET xs == {box.xmin, box.xmax}
              \cup {x \in UNION {{r.xmin, r.xmax} : r \in rects} :
                      box.xmin < x /\ x < box.xmax}
      ys == {box.ymin, box.ymax}
              \cup {y \in UNION {{r.ymin, r.ymax} : r \in rects} :
                      box.ymin < y /\ y < box.ymax}
  IN  \A px \in Consecutive(xs), py \in Consecutive(ys) :
        \E r \in rects : Within(Rectangle(px[1], py[1], px[2], py[2]), r)

\* C24: for all numRows, numCols >= 1 there are numRows * numCols tiles, each
\* as wide as the bounding box of roi divided by numCols and as high as the
\* box divided by numRows; the tiles lie in the box and cover it, and the
\* interiors of two distinct tiles are disjoint.
C24_TilesPartitionBoundingBox ==
  tileFeatures # NotComputed =>
    LET box == BoundingBoxOfTiles
        n == Len(tileFeatures)
    IN  /\ n = tiling.numRows * tiling.numCols
        /\ \A i \in 1..n :
             /\ (tileFeatures[i].geometry.xmax - tileFeatures[i].geometry.xmin)
                  * tiling.numCols = box.xmax - box.xmin
             /\ (tileFeatures[i].geometry.ymax - tileFeatures[i].geometry.ymin)
                  * tiling.numRows = box.ymax - box.ymin
             /\ Within(tileFeatures[i].geometry, box)
        /\ Covers({tileFeatures[i].geometry : i \in 1..n}, box)
        /\ \A i, j \in 1..n :
             i # j => InteriorsDisjoint(tileFeatures[i].geometry, tileFeatures[j].geometry)

\* Rows and columns differ in number, both more than one, and the box is not
\* a whole number of units wide per column, or high per row.
C24_Witness ==
  /\ tileFeatures # NotComputed
  /\ tiling.numRows > 1
  /\ tiling.numCols > 1
  /\ tiling.numRows # tiling.numCols
  /\ LET extent == BoundsOfCells(roi)
     IN  \/ (extent.xmax - extent.xmin) % tiling.numCols # 0
         \/ (extent.ymax - extent.ymin) % tiling.numRows # 0

----------------------------------------------------------------------------
(* Properties of the order of the ranking table of PART 9                   *)

\* The table with rows i and j listed in each other's place.
Swapped(table, i, j) ==
  [k \in 1..Len(table) |-> IF k = i THEN table[j] ELSE IF k = j THEN table[i] ELSE table[k]]

\* The Rank the ranking table gives a layer.
RankOfLayer(table, layer) ==
  LET i == CHOOSE k \in 1..Len(table) : table[k].Layer = layer
  IN  table[i].Rank

\* C25: the ranking table is listed by descending Forest_pct_total; Rank never
\* decreases down the table, is 1 in the first row and at most the number of
\* datasets; and with two datasets listed in each other's place before the
\* sort, the rank computed for every dataset is the one of the table.
C25_RankedTableOrder ==
  ranked # NotComputed =>
    /\ \A i \in 1..(Len(ranked) - 1) :
         /\ ranked[i].Forest_pct_total >= ranked[i + 1].Forest_pct_total
         /\ ranked[i].Rank <= ranked[i + 1].Rank
    /\ ranked[1].Rank = 1
    /\ \A i \in 1..Len(ranked) : ranked[i].Rank <= Len(forestLayers)
    /\ \A i, j \in 1..Len(fc) :
         i < j =>
           LET other == Swapped(fc, i, j)
           IN  \A k \in 1..Len(other) :
                 RankOf(other, other[k]) = RankOfLayer(ranked, other[k].Layer)

\* The table holds a tie and a last rank equal to the number of datasets is
\* not reached: ranks 1, 1, 3 among its rows, the datasets of the tie listed
\* apart from each other.
C25_Witness ==
  /\ ranked # NotComputed
  /\ ranked[1].Rank = 1 /\ ranked[2].Rank = 1 /\ ranked[3].Rank = 3
  /\ ranked[Len(ranked)].Rank < Len(forestLayers)
  /\ \E i, j \in 1..Len(fc) :
       /\ j > i + 1
       /\ fc[i].Forest_pct_total = fc[j].Forest_pct_total
       /\ fc[i + 1].Forest_pct_total # fc[i].Forest_pct_total

----------------------------------------------------------------------------
(* Properties of forestagree of PART 10                                     *)

\* C26 (as claimed): for every polygon that is not flagged, forestagree is a
\* number from 0 to 100: the pixel area of score 6..9 summed over the polygon
\* is at most the area_m2 it is divided by.
C26_ForestagreeWithin0And100 ==
  withPercent # NotComputed =>
    \A i \in 1..Len(withPercent) :
      /\ withPercent[i].forestagree.kind = "number"
      /\ withPercent[i].forestagree.den > 0
      /\ 0 <= withPercent[i].forestagree.num
      /\ withPercent[i].forestagree.num <= 100 * withPercent[i].forestagree.den
      /\ withPercent[i].sum * withPercent[i].area_m2.den <= withPercent[i].area_m2.num

----------------------------------------------------------------------------
(* Properties of the messages of PART 8                                     *)

\* The tasks submitted for the unit a message names: a cluster ('Cluster_2')
\* or a tile ('ForestAgreement_2020_tile_1').
TasksOfUnit(unit) ==
  {t \in 1..Len(tasks) :
     tasks[t].description \in
       {prefix \o unit \o suffix :
          prefix \in {IF script = "GEODATA" THEN EXPORT_DESCRIPTION \o "_" ELSE ""},
          suffix \in {"_Drive", "_Asset"}}}

\* C27 (as claimed): for every value of EXPORT_TARGET, once a script has
\* printed that it is exporting a cluster or a tile, exactly one export task
\* for that unit has been submitted.
C27_ExportingMeansOneTask ==
  \A l \in 1..Len(log) :
    log[l].text \in {"Exporting", "Exporting tile"} =>
      Cardinality(TasksOfUnit(log[l].unit)) = 1

====
